---- MODULE Spec2Model ----
(***************************************************************************)
(* A model of the fhir-typed definition-to-schema compiler: the resource   *)
(* registry, the dependency sorter, the compile loop with its promise job  *)
(* queue, the ValueSet / CodeSystem / StructureDefinition schema           *)
(* generators and the validators they produce.                             *)
(*                                                                         *)
(* Canonical URLs are modelled as the integers 1..NumUrls; the order of    *)
(* the integers stands for the order String.prototype.sort and             *)
(* localeCompare give to the URL strings.                                  *)
(***************************************************************************)
EXTENDS Integers, Sequences, FiniteSets, TLC

\* Bounds of the dependency-sorter model.
NumUrls == 3
MaxEdges == 4
\* Bounds of the overlap-removal model.
MaxLoaded == 3
MaxDate == 2
NumOverlapUrls == 2
\* Bounds of the compile-loop model.
MaxFiles == 3
MaxDeps == 2
\* Bounds of the validator model.
MaxIncludes == 2
MaxExcludes == 2
NumPackages == 5
MaxLoads == 3

Urls == 1..NumUrls

VARIABLES
    depMap,     \* sorter: the registered files, in registration order: <<[url, deps]>>
    sortOut,    \* sorter: what sortResourceFilesByDependencies computed, or NoSort
    spc,        \* sorter: "off" | "register" | "sorted"
    loaded,     \* overlap removal: the resource files handed in, in load order
    trimmed,    \* overlap removal: what removeOverlappingDefinitions returned
    dpc,        \* overlap removal: "off" | "load" | "trimmed"
    loadedFiles,  \* compiler: the resource files the loader returned, in load order
    sortedFiles,  \* compiler: dependencySortedResourceFiles
    results,    \* compiler: the URLs that have a schema in results (built-ins aside)
    resources,  \* compiler: the resources map, URL -> what contribute() was given
    jobs,       \* compiler: the promise job queue, first job first
    rejected,   \* compiler: the URLs whose generator's promise rejected, unhandled
    degraded,   \* compiler: the URLs stored with the schema z.any().optional()
    log,        \* compiler: one entry per loop iteration, in the order they ran
    snapshot,   \* compiler: the URLs of the map the returned promise resolved to
    cpc,        \* compiler: "off" | "load" | "run" | "returned"
    host,       \* validators: who drives the generators and owns the resolvers
    schemaMap,  \* validators: URL -> the schema contribute() stored (its accept set)
    resourceMap,  \* validators: URL -> the resource contribute() stored
    composeInclude,  \* validators: compose.include of the ValueSet being written
    composeExclude,  \* validators: compose.exclude of the ValueSet being written
    profile,    \* validators: the complex-type StructureDefinition compiled, or <<>>
    vpc,        \* validators: "off" | "contribute" | "compose" | "compiled" | "profiled"
    packages,       \* facade: the packages loaded so far, one entry per awaited call
    loaderFiles,    \* facade: what the resource loader's resourceFiles resolves to
    facadeFiles,    \* facade: what this.loadedFiles resolves to, in load order
    facadeSchemas,  \* facade: the URLs that are keys of what this.loadedSchemas resolves to
    lastLoad,   \* facade: what the last generation left: [rejected, degraded]
    outcome,    \* facade: how the last validate() call ended, or NoOutcome
    fpc,        \* facade: "off" | "ready"
    zodSchemas,    \* documents: name or URL -> the schema resolveSchema finds under it
    compiledDefs,  \* documents: the types of the StructureDefinitions compiled, in order
    parsed,     \* documents: the last safeParse: [type, input, success], or NoParse
    conceptForest,  \* hierarchy: the concepts of a ConceptHierarchy, roots first
    lookupResult,   \* hierarchy: the last query: [code, descendants], or NoLookup
    snapshotElements,  \* intermediate form: snapshot.element of the definition being written
    imForm,     \* intermediate form: <<the structure the conversion returned>>, or <<>>
    ipc,        \* intermediate form: "off" | "write" | "converted" | "thrown"
    kindInput,  \* by-kind sort: the resource files handed to Array.sort
    kindOutput, \* by-kind sort: <<the sorted array>>, or <<>>
    kpc,        \* by-kind sort: "off" | "collect" | "sorted"
    extractSd,  \* dependencies: the StructureDefinition being written
    extractDeps, \* dependencies: <<what dependenciesOfStructureDefinition returned>>, or <<>>
    xpc,        \* dependencies: "off" | "write" | "extracted"
    thisLoadedFiles,    \* promises: the chain of promises this.loadedFiles has pointed to
    thisLoadedSchemas,  \* promises: the promises this.loadedSchemas has pointed to
    loaderState,    \* promises: the files the resource loader holds
    calls,          \* promises: the recognizes calls issued
    apc,            \* promises: "off" | "on"
    cache,          \* package loader: the packages of the FHIR cache, with their dependencies
    pkgs,           \* package loader: the packages loadResources is called with
    batchIndex,     \* package loader: the index in pkgs of the package being loaded
    processedPackages,  \* package loader: the list recurse shares within one package
    frames,         \* package loader: the calls of recurse of the package being loaded
    loadedResourceFiles,  \* package loader: the list loadResources builds
    lpc             \* package loader: "off" | "loading" | "resolved" | "rejected"

sortVars == <<depMap, sortOut, spc>>
dedupeVars == <<loaded, trimmed, dpc>>
compileVars ==
    <<loadedFiles, sortedFiles, results, resources, jobs, rejected, degraded, log, snapshot, cpc>>
validatorVars == <<host, schemaMap, resourceMap, composeInclude, composeExclude, profile, vpc>>
facadeVars == <<packages, loaderFiles, facadeFiles, facadeSchemas, lastLoad, outcome, fpc>>
documentVars == <<zodSchemas, compiledDefs, parsed>>
hierarchyVars == <<conceptForest, lookupResult>>
intermediateVars == <<snapshotElements, imForm, ipc>>
kindVars == <<kindInput, kindOutput, kpc>>
dependencyVars == <<extractSd, extractDeps, xpc>>
promiseVars == <<thisLoadedFiles, thisLoadedSchemas, loaderState, calls, apc>>
loaderVars == <<cache, pkgs, batchIndex, processedPackages, frames, loadedResourceFiles, lpc>>
vars ==
    <<sortVars, dedupeVars, compileVars, validatorVars, facadeVars, documentVars, hierarchyVars, intermediateVars, kindVars, dependencyVars, promiseVars, loaderVars>>

-----------------------------------------------------------------------------
(* Generic helpers *)

RECURSIVE SortedSeq(_)
\* Array.prototype.sort() of a list of distinct URLs: ascending order.
SortedSeq(S) ==
    IF S = {} THEN <<>>
    ELSE LET m == CHOOSE x \in S : \A y \in S : x <= y
         IN <<m>> \o SortedSeq(S \ {m})

Range(s) == {s[i] : i \in 1..Len(s)}

RECURSIVE Reverse(_)
Reverse(s) == IF s = <<>> THEN <<>> ELSE Reverse(Tail(s)) \o <<Head(s)>>

\* Array.prototype.indexOf: zero-based index of the first occurrence, or -1.
IndexOf(s, x) ==
    IF \E i \in 1..Len(s) : s[i] = x
    THEN (CHOOSE i \in 1..Len(s) : s[i] = x /\ \A j \in 1..(i - 1) : s[j] # x) - 1
    ELSE -1

\* String.prototype.localeCompare on URLs.
LocaleCompare(a, b) == IF a < b THEN -1 ELSE IF a > b THEN 1 ELSE 0

-----------------------------------------------------------------------------
(* The topological sorter: topologicalSortWithTransitiveResolution *)

\* dependencyMap[node] || []  (the dependency lists are unique and sorted)
Neighbors(dm, node) ==
    IF \E i \in 1..Len(dm) : dm[i].url = node
    THEN SortedSeq((dm[CHOOSE i \in 1..Len(dm) : dm[i].url = node]).deps)
    ELSE <<>>

\* The state the closure dfs() works on. met is a history of the back edges
\* the traversal followed: <<from, to>> each time the "visiting" branch was
\* taken for a node that lies on the current path.
InitDfs == [sorted |-> <<>>, cycles |-> <<>>, visited |-> {}, visiting |-> {},
            path |-> <<>>, ret |-> FALSE, met |-> {}]

\* OnCycle with the report left out: the cycle is noticed but not recorded.
OnCycleSilent(node, st) ==
    [st EXCEPT !.met = IF node \in Range(st.path)
                       THEN @ \cup {<<st.path[Len(st.path)], node>>} ELSE @,
               !.ret = TRUE]

\* The "visiting.has(node)" branch: record the path as a cycle, report it.
OnCycle(node, st) ==
    [st EXCEPT !.cycles = Append(@, st.path),
               !.met = IF node \in Range(st.path)
                       THEN @ \cup {<<st.path[Len(st.path)], node>>} ELSE @,
               !.ret = TRUE]

\* What dfs() does when a neighbour reported a cycle: "return true".
OnNeighborCycle(st) == [st EXCEPT !.ret = TRUE]

RECURSIVE Dfs(_, _, _), DfsNeighbors(_, _, _, _)
Dfs(dm, node, st) ==
    IF node \in st.visited THEN [st EXCEPT !.ret = FALSE]
    ELSE IF node \in st.visiting THEN OnCycle(node, st)
    ELSE LET s1 == [st EXCEPT !.visiting = @ \cup {node}, !.path = Append(@, node)]
             s2 == DfsNeighbors(dm, Neighbors(dm, node), 1, s1)
         IN IF s2.ret THEN OnNeighborCycle(s2)
            ELSE [s2 EXCEPT !.visiting = @ \ {node},
                            !.visited = @ \cup {node},
                            !.sorted = Append(@, node),
                            !.path = SubSeq(@, 1, Len(@) - 1),
                            !.ret = FALSE]

\* for (const neighbor of dependencyMap[node] || []) { if (dfs(...)) return true }
DfsNeighbors(dm, nbrs, i, st) ==
    IF i > Len(nbrs) THEN [st EXCEPT !.ret = FALSE]
    ELSE LET s1 == Dfs(dm, nbrs[i], st)
         IN IF s1.ret THEN s1 ELSE DfsNeighbors(dm, nbrs, i + 1, s1)

RECURSIVE DfsRoots(_, _, _)
\* for (const node of Object.keys(dependencyMap)) if (!visited.has(node)) dfs(node, [])
DfsRoots(dm, i, st) ==
    IF i > Len(dm) THEN st
    ELSE IF dm[i].url \in st.visited THEN DfsRoots(dm, i + 1, st)
         ELSE DfsRoots(dm, i + 1, Dfs(dm, dm[i].url, [st EXCEPT !.path = <<>>]))

topologicalSortWithTransitiveResolution(dm) ==
    LET st == DfsRoots(dm, 1, InitDfs)
    IN [sorted |-> Reverse(st.sorted), cycles |-> st.cycles, met |-> st.met]

-----------------------------------------------------------------------------
(* sortResourceFilesByDependencies and the Array.prototype.sort that uses it *)

\* The comparator without its last branch's tie-break: files that are both
\* missing from sorted compare equal.
CompareByDependenciesNoTieBreak(sorted, a, b) ==
    LET aIndex == IndexOf(sorted, a.url)
        bIndex == IndexOf(sorted, b.url)
    IN IF aIndex > -1 /\ bIndex > -1 THEN bIndex - aIndex
       ELSE IF aIndex > -1 THEN 1
       ELSE IF bIndex > -1 THEN -1
       ELSE 0

\* The comparator returned by sortResourceFilesByDependencies.
CompareByDependencies(sorted, a, b) ==
    LET aIndex == IndexOf(sorted, a.url)
        bIndex == IndexOf(sorted, b.url)
    IN IF aIndex > -1 /\ bIndex > -1 THEN bIndex - aIndex
       ELSE IF aIndex > -1 THEN 1
       ELSE IF bIndex > -1 THEN -1
       ELSE LocaleCompare(a.url, b.url)

\* One step of a stable insertion sort: x goes after every element that does
\* not compare greater than it.
InsertByDependencies(sorted, out, x) ==
    LET k == IF \E i \in 1..Len(out) : CompareByDependencies(sorted, out[i], x) > 0
             THEN CHOOSE i \in 1..Len(out) :
                      /\ CompareByDependencies(sorted, out[i], x) > 0
                      /\ \A j \in 1..(i - 1) : CompareByDependencies(sorted, out[j], x) <= 0
             ELSE Len(out) + 1
    IN SubSeq(out, 1, k - 1) \o <<x>> \o SubSeq(out, k, Len(out))

RECURSIVE ArraySortByDependencies(_, _, _, _)
ArraySortByDependencies(sorted, files, i, out) ==
    IF i > Len(files) THEN out
    ELSE ArraySortByDependencies(sorted, files, i + 1, InsertByDependencies(sorted, out, files[i]))

\* The same loop over the sorter's sorted list alone: files the sorter left
\* out of it are not compiled.
CompileOrderOfSortedOnly(files) ==
    LET sorted == topologicalSortWithTransitiveResolution(files).sorted
    IN SelectSeq(ArraySortByDependencies(sorted, files, 1, <<>>),
                 LAMBDA f : IndexOf(sorted, f.url) > -1)

\* resourceFiles.sort(sortResourceFilesByDependencies(resourceFiles)): the
\* order in which the compiler processes the files.
CompileOrder(files) ==
    ArraySortByDependencies(topologicalSortWithTransitiveResolution(files).sorted,
                            files, 1, <<>>)

-----------------------------------------------------------------------------
(* Specification SpecSort: files are registered, then sorted *)

NoSort == [sorted |-> <<>>, cycles |-> <<>>, met |-> {}, order |-> <<>>]

RECURSIVE EdgeCount(_)
EdgeCount(dm) ==
    IF dm = <<>> THEN 0 ELSE Cardinality(Head(dm).deps) + EdgeCount(Tail(dm))

Keys(dm) == {dm[i].url : i \in 1..Len(dm)}

SortIdle == depMap = <<>> /\ sortOut = NoSort /\ spc = "off"
DedupeIdle == loaded = <<>> /\ trimmed = <<>> /\ dpc = "off"
CompileIdle ==
    /\ loadedFiles = <<>> /\ sortedFiles = <<>> /\ results = {} /\ resources = <<>>
    /\ jobs = <<>> /\ rejected = {} /\ degraded = {}
    /\ log = <<>> /\ snapshot = {} /\ cpc = "off"

ValidatorsIdle ==
    /\ host = "" /\ schemaMap = <<>> /\ resourceMap = <<>>
    /\ composeInclude = <<>> /\ composeExclude = <<>> /\ profile = <<>> /\ vpc = "off"

NoOutcome == [kind |-> "none"]
NoLoad == [rejected |-> {}, degraded |-> {}]

FacadeIdle ==
    /\ packages = <<>> /\ loaderFiles = <<>> /\ facadeFiles = <<>> /\ facadeSchemas = {}
    /\ lastLoad = NoLoad /\ outcome = NoOutcome /\ fpc = "off"

NoParse == [type |-> "none"]
NoLookup == [code |-> 0, descendants |-> <<>>]

DocumentsIdle == zodSchemas = <<>> /\ compiledDefs = <<>> /\ parsed = NoParse
HierarchyIdle == conceptForest = <<>> /\ lookupResult = NoLookup
IntermediateIdle == snapshotElements = <<>> /\ imForm = <<>> /\ ipc = "off"
KindIdle == kindInput = <<>> /\ kindOutput = <<>> /\ kpc = "off"
DependenciesIdle == extractSd = <<>> /\ extractDeps = <<>> /\ xpc = "off"
PromisesIdle ==
    /\ thisLoadedFiles = <<>> /\ thisLoadedSchemas = <<>> /\ loaderState = <<>>
    /\ calls = <<>> /\ apc = "off"
LoaderIdle ==
    /\ cache = <<>> /\ pkgs = <<>> /\ batchIndex = 0 /\ processedPackages = <<>>
    /\ frames = <<>> /\ loadedResourceFiles = <<>> /\ lpc = "off"
OthersIdle == KindIdle /\ DependenciesIdle /\ PromisesIdle /\ LoaderIdle

InitSort ==
    /\ depMap = <<>> /\ sortOut = NoSort /\ spc = "register"
    /\ DedupeIdle /\ CompileIdle /\ ValidatorsIdle /\ FacadeIdle
    /\ DocumentsIdle /\ HierarchyIdle /\ IntermediateIdle /\ OthersIdle

\* A resource file with canonical URL u and dependency set D is handed to the sorter.
RegisterFile(u, D) ==
    /\ spc = "register"
    /\ u \notin Keys(depMap)
    /\ EdgeCount(depMap) + Cardinality(D) <= MaxEdges
    /\ depMap' = Append(depMap, [url |-> u, deps |-> D])
    /\ UNCHANGED <<sortOut, spc, dedupeVars, compileVars, validatorVars, facadeVars, documentVars, hierarchyVars, intermediateVars, kindVars, dependencyVars, promiseVars, loaderVars>>

\* sortResourceFilesByDependencies(files) followed by files.sort(comparator).
SortFiles ==
    /\ spc = "register"
    /\ depMap # <<>>
    /\ LET r == topologicalSortWithTransitiveResolution(depMap)
       IN sortOut' = [sorted |-> r.sorted, cycles |-> r.cycles, met |-> r.met,
                      order |-> CompileOrder(depMap)]
    /\ spc' = "sorted"
    /\ UNCHANGED <<depMap, dedupeVars, compileVars, validatorVars, facadeVars, documentVars, hierarchyVars, intermediateVars, kindVars, dependencyVars, promiseVars, loaderVars>>

NextSort ==
    \/ \E u \in Urls, D \in SUBSET Urls : RegisterFile(u, D)
    \/ SortFiles

SpecSort == InitSort /\ [][NextSort]_vars

-----------------------------------------------------------------------------
(* Properties of the sorter *)

DepsOf(dm, u) ==
    IF u \in Keys(dm) THEN (dm[CHOOSE i \in 1..Len(dm) : dm[i].url = u]).deps ELSE {}

RECURSIVE ReachFrom(_, _)
\* Every URL reachable from the set S along one or more dependency edges.
ReachFrom(dm, S) ==
    LET next == S \cup UNION {DepsOf(dm, u) : u \in S}
    IN IF next = S THEN S ELSE ReachFrom(dm, next)

\* u lies on a dependency cycle (a self-reference included).
OnDependencyCycle(dm, u) == u \in ReachFrom(dm, DepsOf(dm, u))

\* One-based position of the file with URL u in the compile order.
PositionOf(order, u) == CHOOSE i \in 1..Len(order) : order[i].url = u

\* C1: in the compile order every dependency a of b, with neither a nor b on
\* a dependency cycle, comes before b.
C1_TopologicalCorrectness ==
    spc = "sorted" =>
        \A a \in Keys(depMap), b \in Keys(depMap) :
            (a \in DepsOf(depMap, b)
             /\ ~OnDependencyCycle(depMap, a) /\ ~OnDependencyCycle(depMap, b))
            => PositionOf(sortOut.order, a) < PositionOf(sortOut.order, b)

\* C1 fails on: files 1 (no dependencies), 2 (depends on itself) and
\* 3 (depends on 1 and 2), where 3 is compiled before 1.
C1_Refuted ==
    /\ spc = "sorted"
    /\ \E a \in Keys(depMap), b \in Keys(depMap) :
          /\ a \in DepsOf(depMap, b)
          /\ ~OnDependencyCycle(depMap, a) /\ ~OnDependencyCycle(depMap, b)
          /\ PositionOf(sortOut.order, a) > PositionOf(sortOut.order, b)

\* The dependency edges <<from, to>> that close a cycle: to leads back to from.
CycleEdges(dm) ==
    {e \in Keys(dm) \X Urls : e[2] \in DepsOf(dm, e[1]) /\ e[1] \in ReachFrom(dm, {e[2]})}

\* C7: every back edge the traversal follows (an edge from the last URL of
\* the current DFS path to a URL on that path, self-references included) has
\* an entry in cycles: the path that ends in the edge's source and holds its
\* target. And every edge of the dependency map that closes a cycle, followed
\* or not, has an entry in cycles that holds its source.
C7_CycleReportCompleteness ==
    spc = "sorted" =>
        /\ \A e \in sortOut.met :
              \E i \in 1..Len(sortOut.cycles) :
                  LET c == sortOut.cycles[i]
                  IN c # <<>> /\ c[Len(c)] = e[1] /\ e[2] \in Range(c)
        /\ \A e \in CycleEdges(depMap) :
              \E i \in 1..Len(sortOut.cycles) : e[1] \in Range(sortOut.cycles[i])

\* A sort that met a back edge between two different URLs.
C7_Witness ==
    /\ spc = "sorted"
    /\ \E e \in sortOut.met : e[1] # e[2]
    /\ Len(sortOut.cycles) >= 2

\* The registered file with URL u, as the comparator is given it.
FileAt(dm, u) == dm[CHOOSE i \in 1..Len(dm) : dm[i].url = u]

\* C21: when exactly one of two compared files has its URL in sorted, the
\* comparator orders that file first: it returns a negative number when the
\* file in sorted is its first argument and a positive one when it is its
\* second argument.
C21_OnlyOneInSortedComesFirst ==
    spc = "sorted" =>
        \A a \in Keys(depMap), b \in Keys(depMap) :
            (IndexOf(sortOut.sorted, a) > -1 /\ IndexOf(sortOut.sorted, b) = -1)
            => /\ CompareByDependencies(sortOut.sorted, FileAt(depMap, a), FileAt(depMap, b)) < 0
               /\ CompareByDependencies(sortOut.sorted, FileAt(depMap, b), FileAt(depMap, a)) > 0

\* C21 fails on: file 1 depending on 2 and on itself, file 2 without
\* dependencies. sorted is <<2>>, and the comparator puts file 1, which is not
\* in sorted, before file 2, the dependency it needs.
C21_Refuted ==
    /\ spc = "sorted"
    /\ \E a \in Keys(depMap), b \in Keys(depMap) :
          /\ IndexOf(sortOut.sorted, a) > -1 /\ IndexOf(sortOut.sorted, b) = -1
          /\ a \in DepsOf(depMap, b)
          /\ CompareByDependencies(sortOut.sorted, FileAt(depMap, a), FileAt(depMap, b)) > 0
          /\ PositionOf(sortOut.order, b) < PositionOf(sortOut.order, a)

\* What the comparator does in that case: the file that is not in sorted is
\* ordered first.
C21_OnlyOneInSortedComesLast ==
    spc = "sorted" =>
        \A a \in Keys(depMap), b \in Keys(depMap) :
            (IndexOf(sortOut.sorted, a) > -1 /\ IndexOf(sortOut.sorted, b) = -1)
            => /\ CompareByDependencies(sortOut.sorted, FileAt(depMap, a), FileAt(depMap, b)) = 1
               /\ CompareByDependencies(sortOut.sorted, FileAt(depMap, b), FileAt(depMap, a)) = -1

\* Every order in which the registered files can be handed to Array.sort.
FileOrders(dm) ==
    {p \in [1..Len(dm) -> {dm[i] : i \in 1..Len(dm)}] :
        \A i \in 1..Len(dm), j \in 1..Len(dm) : i # j => p[i] # p[j]}

\* C22: on files with distinct URLs the dependency comparator is a total
\* order: it never returns 0 for two different URLs, the sign of (a, b) is
\* the opposite of the sign of (b, a), and it is transitive; and sorting any
\* permutation of the files with it gives one and the same sequence.
C22_ComparatorIsATotalOrder ==
    spc = "sorted" =>
        LET cmp(a, b) == CompareByDependencies(sortOut.sorted, FileAt(depMap, a), FileAt(depMap, b))
        IN /\ \A a \in Keys(depMap), b \in Keys(depMap) :
                 a # b => /\ cmp(a, b) # 0
                          /\ (cmp(a, b) < 0) <=> (cmp(b, a) > 0)
           /\ \A a \in Keys(depMap), b \in Keys(depMap), c \in Keys(depMap) :
                 (cmp(a, b) < 0 /\ cmp(b, c) < 0) => cmp(a, c) < 0
           /\ \A p \in FileOrders(depMap) :
                 ArraySortByDependencies(sortOut.sorted, p, 1, <<>>) = sortOut.order

\* Three files were sorted of which the sorter left two out of sorted: every
\* branch of the comparator was taken.
C22_Witness ==
    /\ spc = "sorted"
    /\ Len(depMap) = 3
    /\ Cardinality({u \in Keys(depMap) : IndexOf(sortOut.sorted, u) = -1}) = 2
    /\ \A p \in FileOrders(depMap) :
          ArraySortByDependencies(sortOut.sorted, p, 1, <<>>) = sortOut.order

\* Three files that are all in sorted, compared by index alone.
C22_AllInSortedWitness ==
    /\ spc = "sorted"
    /\ Len(depMap) = 3
    /\ \A u \in Keys(depMap) : IndexOf(sortOut.sorted, u) > -1
    /\ \E u \in Keys(depMap) : DepsOf(depMap, u) # {}

\* How many times u occurs in the list.
Occurrences(list, u) == Cardinality({i \in 1..Len(list) : list[i] = u})

\* C20: a back edge does not make the sorter abandon the traversal: after
\* sorting, every URL that is a key of the dependency map, on a cycle or
\* not, occurs in sorted exactly once.
C20_EveryKeySortedOnce ==
    spc = "sorted" =>
        \A u \in Keys(depMap) : Occurrences(sortOut.sorted, u) = 1

\* C20 fails on: the one file 1 that depends on itself, where sorted is empty.
C20_Refuted ==
    /\ spc = "sorted"
    /\ \E u \in Keys(depMap) : Occurrences(sortOut.sorted, u) = 0

\* No key occurs in sorted twice, and every key that reaches no cycle occurs.
C20_KeysOffCyclesSortedOnce ==
    spc = "sorted" =>
        \A u \in Keys(depMap) :
            /\ Occurrences(sortOut.sorted, u) <= 1
            /\ (\A v \in ReachFrom(depMap, {u}) \cup {u} : ~OnDependencyCycle(depMap, v))
                  => Occurrences(sortOut.sorted, u) = 1

-----------------------------------------------------------------------------
(* removeOverlappingDefinitions: one file per canonical URL *)

\* A file's status, experimental flag and date as read from its JSON. Date 0
\* stands for a missing date; experimental "absent" for a missing flag.
Statuses == {"active", "draft", "retired"}
Experimentals == {"false", "true", "absent"}
Dates == 0..MaxDate

filterNonRetiredOnly(file) == file.status # "retired"
filterActiveOnly(file) == file.status = "active"
filterNonExperimentalOnly(file) == file.experimental = "false"

ApplyFilter(fn, file) ==
    CASE fn = "filterActiveOnly" -> filterActiveOnly(file)
      [] fn = "filterNonRetiredOnly" -> filterNonRetiredOnly(file)
      [] fn = "filterNonExperimentalOnly" -> filterNonExperimentalOnly(file)

sortEnrichedFilesMostRecentFirst(a, b) ==
    IF a.date # 0 /\ b.date # 0 THEN LocaleCompare(b.date, a.date) ELSE 0

RECURSIVE filterEnrichedFiles(_, _, _)
\* enrichedFiles is the variable of the enclosing scope the function filters,
\* files its first parameter, filterFunctions the rest of its parameters.
filterEnrichedFiles(enrichedFiles, files, filterFunctions) ==
    IF Len(files) > 1
    THEN LET subset == SelectSeq(enrichedFiles,
                                 LAMBDA f : ApplyFilter(Head(filterFunctions), f))
         IN IF Len(subset) = Len(enrichedFiles)
            THEN IF Len(filterFunctions) > 1
                 THEN filterEnrichedFiles(enrichedFiles, subset, Tail(filterFunctions))
                 ELSE files
            ELSE IF Len(subset) = 1 THEN SubSeq(subset, 1, 1)
            ELSE IF Len(subset) > 1
                 THEN IF Len(filterFunctions) > 1
                      THEN filterEnrichedFiles(enrichedFiles, subset, Tail(filterFunctions))
                      ELSE files
                 ELSE files
    ELSE files

\* One step of a stable insertion sort under sortEnrichedFilesMostRecentFirst.
InsertMostRecentFirst(out, x) ==
    LET k == IF \E i \in 1..Len(out) : sortEnrichedFilesMostRecentFirst(out[i], x) > 0
             THEN CHOOSE i \in 1..Len(out) :
                      /\ sortEnrichedFilesMostRecentFirst(out[i], x) > 0
                      /\ \A j \in 1..(i - 1) : sortEnrichedFilesMostRecentFirst(out[j], x) <= 0
             ELSE Len(out) + 1
    IN SubSeq(out, 1, k - 1) \o <<x>> \o SubSeq(out, k, Len(out))

RECURSIVE ArraySortMostRecentFirst(_, _, _)
ArraySortMostRecentFirst(files, i, out) ==
    IF i > Len(files) THEN out
    ELSE ArraySortMostRecentFirst(files, i + 1, InsertMostRecentFirst(out, files[i]))

\* The file kept for one URL out of the files that carry it.
PickOverlapping(overlappingFiles) ==
    IF Len(overlappingFiles) = 1 THEN overlappingFiles[1]
    ELSE LET enrichedFiles == filterEnrichedFiles(overlappingFiles, overlappingFiles,
                 <<"filterActiveOnly", "filterNonRetiredOnly", "filterNonExperimentalOnly">>)
         IN IF Len(enrichedFiles) = 1 THEN enrichedFiles[1]
            ELSE ArraySortMostRecentFirst(enrichedFiles, 1, <<>>)[1]

RECURSIVE Unique(_, _)
\* unique(list): the list without repetitions, in the order of first occurrence.
Unique(list, seen) ==
    IF list = <<>> THEN <<>>
    ELSE IF Head(list) \in seen THEN Unique(Tail(list), seen)
         ELSE <<Head(list)>> \o Unique(Tail(list), seen \cup {Head(list)})

removeOverlappingDefinitions(resourceFiles) ==
    LET uniqueUrls == Unique([i \in 1..Len(resourceFiles) |-> resourceFiles[i].url], {})
    IN [k \in 1..Len(uniqueUrls) |->
           PickOverlapping(SelectSeq(resourceFiles, LAMBDA f : f.url = uniqueUrls[k]))]

-----------------------------------------------------------------------------
(* Specification SpecDedupe: files are loaded, then trimmed *)

InitDedupe ==
    /\ loaded = <<>> /\ trimmed = <<>> /\ dpc = "load"
    /\ SortIdle /\ CompileIdle /\ ValidatorsIdle /\ FacadeIdle
    /\ DocumentsIdle /\ HierarchyIdle /\ IntermediateIdle /\ OthersIdle

\* A resource file is loaded from a package or a directory; its path is its
\* own, whatever its content.
LoadOverlappingFile(u, s, e, d) ==
    /\ dpc = "load"
    /\ Len(loaded) < MaxLoaded
    /\ loaded' = Append(loaded, [filePath |-> Len(loaded) + 1, url |-> u, status |-> s,
                                 experimental |-> e, date |-> d])
    /\ UNCHANGED <<trimmed, dpc, sortVars, compileVars, validatorVars, facadeVars, documentVars, hierarchyVars, intermediateVars, kindVars, dependencyVars, promiseVars, loaderVars>>

\* generateZodSchemasForResourceFiles: resourceFiles = removeOverlappingDefinitions(resourceFiles)
RemoveOverlapping ==
    /\ dpc = "load"
    /\ loaded # <<>>
    /\ trimmed' = removeOverlappingDefinitions(loaded)
    /\ dpc' = "trimmed"
    /\ UNCHANGED <<loaded, sortVars, compileVars, validatorVars, facadeVars, documentVars, hierarchyVars, intermediateVars, kindVars, dependencyVars, promiseVars, loaderVars>>

NextDedupe ==
    \/ \E u \in 1..NumOverlapUrls, s \in Statuses, e \in Experimentals, d \in Dates :
           LoadOverlappingFile(u, s, e, d)
    \/ RemoveOverlapping

SpecDedupe == InitDedupe /\ [][NextDedupe]_vars

\* C10: when at least one of the files loaded for a URL is active, the file
\* kept for that URL is active.
C10_DedupePrefersActive ==
    dpc = "trimmed" =>
        \A i \in 1..Len(loaded) :
            loaded[i].status = "active" =>
                \A k \in 1..Len(trimmed) :
                    trimmed[k].url = loaded[i].url => trimmed[k].status = "active"

\* C10 fails on three files of one URL: two active ones and a newer draft.
C10_Refuted ==
    /\ dpc = "trimmed"
    /\ \E i \in 1..Len(loaded), k \in 1..Len(trimmed) :
          /\ loaded[i].status = "active"
          /\ trimmed[k].url = loaded[i].url
          /\ trimmed[k].status # "active"

\* The files of a URL that the status step leaves: the active ones when there
\* are any, else the non-retired ones when there are any, else all of them.
AfterStatusStep(u) ==
    LET all == {i \in 1..Len(loaded) : loaded[i].url = u}
        active == {i \in all : loaded[i].status = "active"}
        nonRetired == {i \in all : loaded[i].status # "retired"}
    IN IF active # {} THEN active
       ELSE IF nonRetired # {} THEN nonRetired ELSE all

\* C11: when one of the files that the status step leaves for a URL has
\* experimental = false, the file kept for that URL has experimental = false.
C11_DedupePrefersNonExperimental ==
    dpc = "trimmed" =>
        \A k \in 1..Len(trimmed) :
            (\E i \in AfterStatusStep(trimmed[k].url) : loaded[i].experimental = "false")
                => trimmed[k].experimental = "false"

\* C11 fails although every file of the URL is active: the last filter leaves
\* two non-experimental files, and the unfiltered list is sorted by date.
C11_AllActiveRefuted ==
    dpc = "trimmed" =>
        \A k \in 1..Len(trimmed) :
            ( /\ \A i \in 1..Len(loaded) : loaded[i].status = "active"
              /\ \E i \in 1..Len(loaded) :
                    loaded[i].url = trimmed[k].url /\ loaded[i].experimental = "false" )
                => trimmed[k].experimental = "false"

\* The same files supplied in another order.
Reordered(p) == [i \in 1..Len(loaded) |-> loaded[p[i]]]

\* C12: the files kept are the same for every order in which the loaded files
\* are supplied, ties on status, experimental and date and missing dates
\* included.
C12_DedupeDeterminism ==
    dpc = "trimmed" =>
        \A p \in Permutations(1..Len(loaded)) :
            Range(removeOverlappingDefinitions(Reordered(p))) = Range(trimmed)

\* C12 as the specification's property list states it: files of one URL with
\* identical status, experimental and date.
C12_IdenticalFilesRefuted ==
    ( /\ dpc = "trimmed"
      /\ \A i, j \in 1..Len(loaded) :
            /\ loaded[i].url = loaded[j].url
            /\ loaded[i].status = loaded[j].status
            /\ loaded[i].experimental = loaded[j].experimental
            /\ loaded[i].date = loaded[j].date ) =>
        \A p \in Permutations(1..Len(loaded)) :
            Range(removeOverlappingDefinitions(Reordered(p))) = Range(trimmed)

-----------------------------------------------------------------------------
(* generateZodSchemasForResourceFiles: the compile loop and its promise jobs *)

\* What a resource file is: a StructureDefinition of a primitive or a complex
\* type, a ValueSet, or a CodeSystem with its content field.
FileShapes ==
    {[resourceType |-> "StructureDefinition", kind |-> "primitive-type", content |-> ""],
     [resourceType |-> "StructureDefinition", kind |-> "complex-type", content |-> ""],
     [resourceType |-> "ValueSet", kind |-> "", content |-> ""],
     [resourceType |-> "CodeSystem", kind |-> "", content |-> "complete"],
     [resourceType |-> "CodeSystem", kind |-> "", content |-> "example"],
     [resourceType |-> "CodeSystem", kind |-> "", content |-> "supplement"]}

Undefined == [undefined |-> TRUE]

\* The object simplifyHierarchicalCodeSystemConcept returns: { url, concepts }.
HierarchyOf(file) == [url |-> file.url, concepts |-> "concepts"]

Put(map, key, value) ==
    [k \in DOMAIN map \cup {key} |-> IF k = key THEN value ELSE map[k]]

\* resolveResource of the compile loop.
resolveResource(res, nameOrUrl) ==
    LET resource == IF nameOrUrl \in DOMAIN res THEN res[nameOrUrl] ELSE Undefined
    IN IF "resourceType" \in DOMAIN resource /\ resource.resourceType = "CodeSystem"
       THEN resource
       ELSE Undefined

\* resolveSchema of the compile loop: is a schema stored under the URL.
resolveSchema(st, nameOrUrl) == nameOrUrl \in st.results

assignSchemaForResourceFile(st, resourceFile, resource) ==
    [st EXCEPT !.results = @ \cup {resourceFile.url},
               !.resources = IF resourceFile.resourceType = "CodeSystem"
                             THEN Put(@, resourceFile.url, resource)
                             ELSE @]

\* What a generator compiles in for a reference resolveSchema cannot resolve:
\* z.any() for an element type of a complex type, z.string().min(1) for the
\* value type of a primitive type, the defaultSchema parameter for a ValueSet
\* (z.string().min(1) in an include, z.never() in an exclude).
FallbackOf(file) ==
    IF file.resourceType = "StructureDefinition"
    THEN (IF file.kind = "primitive-type" THEN "String" ELSE "Any")
    ELSE IF file.resourceType = "ValueSet" THEN "Default"
    ELSE "none"

\* The synchronous part of compiling a file: what it resolves, and how.
LogEntry(st, file) ==
    [url |-> file.url,
     seen |-> {a \in Urls : resolveSchema(st, a)},
     hier |-> {a \in file.deps : resolveResource(st.resources, a) # Undefined},
     fallback |-> [a \in {x \in file.deps : ~resolveSchema(st, x)} |-> FallbackOf(file)]]

processCodeSystemResource(st, file) ==
    IF file.content = "complete" THEN assignSchemaForResourceFile(st, file, HierarchyOf(file))
    ELSE IF file.content = "example" THEN assignSchemaForResourceFile(st, file, Undefined)
    ELSE st

\* The ValueSet generator: collectSchemas throws on an include or exclude
\* entry with neither valueSet nor system, which rejects the promise of the
\* async generator before it contributes; nothing handles the rejection.
processValueSetResource(st, file) ==
    IF file.malformed
    THEN [st EXCEPT !.rejected = @ \cup {file.url}]
    ELSE assignSchemaForResourceFile(st, file, [resourceType |-> "ValueSet", url |-> file.url])

\* The StructureDefinition generator up to its first await that suspends it.
\* For a definition without root element or with an orphan element the
\* conversion throws inside buildSchemaForComplexType's try, before its await.
processStructureDefinitionResource(st, file, i) ==
    IF file.kind = "primitive-type"
    THEN [st EXCEPT !.jobs = Append(@, [k |-> "contribute", i |-> i])]
    ELSE IF file.malformed
    THEN [st EXCEPT !.jobs = Append(@, [k |-> "buildSchemaForStructureDefinition", i |-> i])]
    ELSE [st EXCEPT !.jobs = Append(@, [k |-> "buildSchemaForComplexType", i |-> i])]

\* contribute(file, resource, schema) of the StructureDefinition generator;
\* the schema is z.any().optional() when the conversion threw.
contributeStructureDefinition(st, file) ==
    LET s1 == assignSchemaForResourceFile(st, file,
                  [resourceType |-> "StructureDefinition", url |-> file.url])
    IN [s1 EXCEPT !.degraded = IF file.kind # "primitive-type" /\ file.malformed
                               THEN @ \cup {file.url} ELSE @ \ {file.url}]

\* processResource of the compile loop: the generator is called, not awaited.
processResource(st, file, i) ==
    IF file.resourceType = "StructureDefinition"
    THEN processStructureDefinitionResource(st, file, i)
    ELSE IF file.resourceType = "ValueSet" THEN processValueSetResource(st, file)
    ELSE processCodeSystemResource(st, file)

\* One pass of "for (const file of dependencySortedResourceFiles)" up to its
\* await, or, past the last file, the return of { ...Schemas, ...results }.
LoopFrom(st, sorted, i) ==
    IF i > Len(sorted)
    THEN [st EXCEPT !.snapshot = st.results, !.cpc = "returned"]
    ELSE LET s1 == [st EXCEPT !.log = Append(@, LogEntry(st, sorted[i]))]
             s2 == processResource(s1, sorted[i], i)
         IN [s2 EXCEPT !.jobs = Append(@, [k |-> "loop", i |-> i])]

-----------------------------------------------------------------------------
(* Specification SpecCompile: files are loaded, then compiled job by job *)

InitCompile ==
    /\ loadedFiles = <<>> /\ sortedFiles = <<>> /\ results = {} /\ resources = <<>>
    /\ jobs = <<>> /\ rejected = {} /\ degraded = {}
    /\ log = <<>> /\ snapshot = {} /\ cpc = "load"
    /\ SortIdle /\ DedupeIdle /\ ValidatorsIdle /\ FacadeIdle
    /\ DocumentsIdle /\ HierarchyIdle /\ IntermediateIdle /\ OthersIdle

\* The compile loop's own variables as one record, and back.
Compiler ==
    [results |-> results, resources |-> resources, jobs |-> jobs, rejected |-> rejected,
     degraded |-> degraded, log |-> log, snapshot |-> snapshot, cpc |-> cpc]

Becomes(st) ==
    /\ results' = st.results /\ resources' = st.resources /\ jobs' = st.jobs
    /\ rejected' = st.rejected /\ degraded' = st.degraded
    /\ log' = st.log /\ snapshot' = st.snapshot /\ cpc' = st.cpc

\* The resource loader hands over one more file; its dependencies are what
\* extractDependenciesFromResourceFile finds in it. The files are well-formed.
LoadFile(u, shape, D) ==
    /\ cpc = "load"
    /\ Len(loadedFiles) < MaxFiles
    /\ u \notin Keys(loadedFiles)
    /\ EdgeCount(loadedFiles) + Cardinality(D) <= MaxDeps
    /\ shape.resourceType = "CodeSystem" => Cardinality(D) <= 1
    /\ loadedFiles' = Append(loadedFiles,
           [url |-> u, resourceType |-> shape.resourceType, kind |-> shape.kind,
            content |-> shape.content, deps |-> D, malformed |-> FALSE,
            status |-> "active", experimental |-> "false", date |-> 1])
    /\ UNCHANGED <<sortedFiles, results, resources, jobs, rejected, degraded, log, snapshot, cpc>>
    /\ UNCHANGED <<sortVars, dedupeVars, validatorVars, facadeVars, documentVars, hierarchyVars, intermediateVars, kindVars, dependencyVars, promiseVars, loaderVars>>

\* generateZodSchemasForResourceFiles, from its entry to its first await.
GenerateSchemas ==
    /\ cpc = "load"
    /\ LET sorted == CompileOrder(removeOverlappingDefinitions(loadedFiles))
       IN /\ sortedFiles' = sorted
          /\ Becomes(LoopFrom([Compiler EXCEPT !.cpc = "run"], sorted, 1))
    /\ UNCHANGED <<loadedFiles, sortVars, dedupeVars, validatorVars, facadeVars, documentVars, hierarchyVars, intermediateVars, kindVars, dependencyVars, promiseVars, loaderVars>>

\* The job that resumes buildSchemaForComplexType after "await convertToSchema":
\* its promise resolves, which queues the resumption of its caller.
ResumeBuildSchemaForComplexType ==
    /\ jobs # <<>> /\ Head(jobs).k = "buildSchemaForComplexType"
    /\ jobs' = Append(Tail(jobs), [k |-> "buildSchemaForStructureDefinition", i |-> Head(jobs).i])
    /\ UNCHANGED <<loadedFiles, sortedFiles, results, resources, rejected, degraded, log, snapshot, cpc>>
    /\ UNCHANGED <<sortVars, dedupeVars, validatorVars, facadeVars, documentVars, hierarchyVars, intermediateVars, kindVars, dependencyVars, promiseVars, loaderVars>>

\* The job that resumes buildSchemaForStructureDefinition after its "return await".
ResumeBuildSchemaForStructureDefinition ==
    /\ jobs # <<>> /\ Head(jobs).k = "buildSchemaForStructureDefinition"
    /\ jobs' = Append(Tail(jobs), [k |-> "contribute", i |-> Head(jobs).i])
    /\ UNCHANGED <<loadedFiles, sortedFiles, results, resources, rejected, degraded, log, snapshot, cpc>>
    /\ UNCHANGED <<sortVars, dedupeVars, validatorVars, facadeVars, documentVars, hierarchyVars, intermediateVars, kindVars, dependencyVars, promiseVars, loaderVars>>

\* The job that resumes the StructureDefinition processResource after its
\* await: contribute(file, resource, schema).
ResumeContribute ==
    /\ jobs # <<>> /\ Head(jobs).k = "contribute"
    /\ LET file == sortedFiles[Head(jobs).i]
       IN Becomes(contributeStructureDefinition([Compiler EXCEPT !.jobs = Tail(jobs)], file))
    /\ UNCHANGED <<loadedFiles, sortedFiles, sortVars, dedupeVars, validatorVars, facadeVars, documentVars, hierarchyVars, intermediateVars, kindVars, dependencyVars, promiseVars, loaderVars>>

\* The job that resumes the compile loop after "await processResource(...)".
ResumeLoop ==
    /\ jobs # <<>> /\ Head(jobs).k = "loop"
    /\ Becomes(LoopFrom([Compiler EXCEPT !.jobs = Tail(jobs)], sortedFiles, Head(jobs).i + 1))
    /\ UNCHANGED <<loadedFiles, sortedFiles, sortVars, dedupeVars, validatorVars, facadeVars, documentVars, hierarchyVars, intermediateVars, kindVars, dependencyVars, promiseVars, loaderVars>>

NextCompile ==
    \/ \E u \in Urls, shape \in FileShapes, D \in SUBSET Urls : LoadFile(u, shape, D)
    \/ GenerateSchemas
    \/ ResumeBuildSchemaForComplexType
    \/ ResumeBuildSchemaForStructureDefinition
    \/ ResumeContribute
    \/ ResumeLoop

SpecCompile == InitCompile /\ [][NextCompile]_vars

-----------------------------------------------------------------------------
(* Properties of the compile loop *)

\* FhirValidator.recognizes, once loadedSchemas has resolved.
recognizes(nameOrUrl) == nameOrUrl \in snapshot

HasValidator(file) == ~(file.resourceType = "CodeSystem" /\ file.content = "supplement")

\* C2: when the compile of a file b begins, results already holds the schema
\* of every dependency a of b that comes before b in the compile order, is not
\* on a dependency cycle and is not a supplement CodeSystem.
C2_DependenciesCompiledFirst ==
    \A i \in 1..Len(log) : \A j \in 1..(i - 1) :
        LET a == sortedFiles[j]
            b == sortedFiles[i]
        IN (a.url \in b.deps /\ HasValidator(a) /\ ~OnDependencyCycle(loadedFiles, a.url))
           => a.url \in log[i].seen

\* C3: once the generation has returned, recognizes(url) is true for the URL
\* of every loaded StructureDefinition, ValueSet and CodeSystem whose content
\* is not supplement.
C3_RecognizesEveryLoadedResource ==
    cpc = "returned" =>
        \A i \in 1..Len(loadedFiles) :
            HasValidator(loadedFiles[i]) => recognizes(loadedFiles[i].url)

\* C8: a compiled CodeSystem with content complete has its hierarchy stored
\* under its URL, and a ValueSet compiled later that refers to the system
\* gets that hierarchy from resolveResource.
C8_HierarchyResolvedForLaterValueSet ==
    \A i \in 1..Len(log) : \A j \in 1..(i - 1) :
        LET a == sortedFiles[j]
            b == sortedFiles[i]
        IN (a.resourceType = "CodeSystem" /\ a.content = "complete")
           => /\ a.url \in DOMAIN resources /\ resources[a.url] = HierarchyOf(a)
              /\ (b.resourceType = "ValueSet" /\ a.url \in b.deps) => a.url \in log[i].hier

CompiledExactlyOnce ==
    /\ Len(log) = Len(loadedFiles)
    /\ \A i \in 1..Len(loadedFiles) :
          Cardinality({k \in 1..Len(log) : log[k].url = loadedFiles[i].url}) = 1

ResolvesReferences(file) == file.resourceType \in {"StructureDefinition", "ValueSet"}

FallbacksAsCoded ==
    \A i \in 1..Len(log) : \A a \in DOMAIN log[i].fallback :
        log[i].fallback[a] = (IF sortedFiles[i].kind = "complex-type" THEN "Any"
                              ELSE IF sortedFiles[i].resourceType = "ValueSet" THEN "Default"
                              ELSE IF sortedFiles[i].kind = "primitive-type" THEN "String"
                              ELSE "none")

\* An upper bound on the jobs still to run: what each queued job stands for.
JobWeight(job) ==
    CASE job.k = "buildSchemaForComplexType" -> 3
      [] job.k = "buildSchemaForStructureDefinition" -> 2
      [] job.k = "contribute" -> 1
      [] job.k = "loop" -> 1 + 4 * (Len(sortedFiles) - job.i)

RECURSIVE WorkLeft(_)
WorkLeft(js) == IF js = <<>> THEN 0 ELSE JobWeight(Head(js)) + WorkLeft(Tail(js))

-----------------------------------------------------------------------------
(* Zod schemas, as the set of the values they accept *)

\* The values the validators are tried on: the codes of the code systems
\* below, a code of no system, the empty string, a value that is no string
\* and the value of a field that is not there.
NotAString == "[object Object]"
Absent == "undefined"
Values ==
    {"a", "b", "c",
     "machine", "computer", "laptop", "desktop", "robot",
     "human", "adult", "man", "woman", "child", "boy", "girl",
     "male", "zzz", "", NotAString, Absent}

ZAny == Values
ZNever == {}
ZString == Values \ {NotAString, Absent}
ZStringMin1 == ZString \ {""}
ZLiteral(value) == {v \in Values : v = value}
ZEnum(values) == {v \in Values : v \in values}
ZAnd(left, right) == left \cap right
ZOr(left, right) == left \cup right

-----------------------------------------------------------------------------
(* Concept hierarchies: codesystems/hierarchy.ts *)

isConceptHierarchy(x) == "url" \in DOMAIN x /\ "concepts" \in DOMAIN x

RECURSIVE findCodeIn(_, _), findCodeInChildren(_, _, _)
findCodeIn(concept, code) ==
    IF concept.code = code THEN concept
    ELSE findCodeInChildren(concept.descendants, 1, code)
\* "for (const child of concept.descendants)", from child i on.
findCodeInChildren(children, i, code) ==
    IF i > Len(children) THEN Undefined
    ELSE IF children[i].code = code THEN children[i]
    ELSE LET result == findCodeIn(children[i], code)
         IN IF result # Undefined THEN result
            ELSE findCodeInChildren(children, i + 1, code)

RECURSIVE findCodeAmong(_, _, _)
findCodeAmong(concepts, i, code) ==
    IF i > Len(concepts) THEN Undefined
    ELSE LET result == findCodeIn(concepts[i], code)
         IN IF result # Undefined THEN result ELSE findCodeAmong(concepts, i + 1, code)

findConcept(hierarchy, code) == findCodeAmong(hierarchy.concepts, 1, code)

RECURSIVE collectCodesUnder(_), collectCodesUnderAll(_, _)
collectCodesUnder(concept) == <<concept.code>> \o collectCodesUnderAll(concept.descendants, 1)
\* concepts.flatMap(collectCodesUnder), from concept i on.
collectCodesUnderAll(concepts, i) ==
    IF i > Len(concepts) THEN <<>>
    ELSE collectCodesUnder(concepts[i]) \o collectCodesUnderAll(concepts, i + 1)

\* hierarchicalDescendantsOf without the recursion of collectCodesUnder: the
\* children of the concept only.
hierarchicalDescendantsOfChildrenOnly(hierarchy, code) ==
    LET concept == findConcept(hierarchy, code)
    IN IF concept = Undefined THEN <<>>
       ELSE [i \in 1..Len(concept.descendants) |-> concept.descendants[i].code]

hierarchicalDescendantsOf(hierarchy, code) ==
    LET concept == findConcept(hierarchy, code)
    IN IF concept = Undefined THEN <<>> ELSE collectCodesUnderAll(concept.descendants, 1)

RECURSIVE collectPathBetween(_, _, _)
\* "for (const child of root.descendants)" of collectPathBetween, from child i on.
collectPathBetween(root, i, code) ==
    IF i > Len(root.descendants) THEN <<>>
    ELSE IF root.descendants[i].code = code THEN <<root.code>>
    ELSE LET path == collectPathBetween(root.descendants[i], 1, code)
         IN IF Len(path) > 0 THEN <<root.code>> \o path
            ELSE collectPathBetween(root, i + 1, code)

RECURSIVE ancestorsFromRoots(_, _, _)
\* "for (const root of hierarchy.concepts)" of hierarchicalAncestorsOf, from root i on.
ancestorsFromRoots(concepts, i, code) ==
    IF i > Len(concepts) THEN <<>>
    ELSE IF concepts[i].code = code THEN <<>>
    ELSE LET path == collectPathBetween(concepts[i], 1, code)
         IN IF Len(path) > 0 THEN path ELSE ancestorsFromRoots(concepts, i + 1, code)

hierarchicalAncestorsOf(hierarchy, code) ==
    IF findConcept(hierarchy, code) = Undefined THEN <<>>
    ELSE ancestorsFromRoots(hierarchy.concepts, 1, code)

-----------------------------------------------------------------------------
(* The resolvers and contribute(), as the two drivers of the generators give them *)

\* generateZodSchemasForResourceFiles is the library's compile loop;
\* processResources is the driver of the ValueSet test suites.
Hosts == {"generateZodSchemasForResourceFiles", "processResources"}

\* An absent URL (an include without system, an element without binding).
NoUrl == 0

\* contribute(resourceFile, resource, schema): assignSchemaForResourceFile in
\* the compile loop, the callback of the test suites under processResources.
contribute(env, resourceFile, resource, schema) ==
    [env EXCEPT
        !.schemaMap = Put(@, resourceFile.url, schema),
        !.resourceMap =
            IF env.host = "processResources" \/ resourceFile.resourceType = "CodeSystem"
            THEN Put(@, resourceFile.url, resource)
            ELSE @]

\* Does resolveSchema(nameOrUrl) give a schema, and which.
Resolves(env, nameOrUrl) == nameOrUrl \in DOMAIN env.schemaMap
SchemaOf(env, nameOrUrl) == env.schemaMap[nameOrUrl]

\* resolveResource(nameOrUrl) of the driver.
ResolveResourceOf(env, nameOrUrl) ==
    IF env.host = "processResources"
    THEN (IF nameOrUrl \in DOMAIN env.resourceMap THEN env.resourceMap[nameOrUrl] ELSE Undefined)
    ELSE resolveResource(env.resourceMap, nameOrUrl)

-----------------------------------------------------------------------------
(* CodeSystem generator: parsing/codesystem/schema-generator.ts *)

\* The properties record built from a concept's property array.
PropertiesOf(property) ==
    [c \in {property[i].code : i \in 1..Len(property)} |->
        LET last == CHOOSE i \in 1..Len(property) :
                        /\ property[i].code = c
                        /\ \A j \in 1..Len(property) : property[j].code = c => j <= i
        IN [type |-> "string", value |-> property[last].valueCode]]

RECURSIVE convertToConceptHierarchyConcept(_), convertConcepts(_, _)
convertToConceptHierarchyConcept(root) ==
    [code |-> root.code,
     properties |-> PropertiesOf(root.property),
     descendants |-> convertConcepts(root.concept, 1)]
\* concepts.map(convertToConceptHierarchyConcept), from concept i on.
convertConcepts(concepts, i) ==
    IF i > Len(concepts) THEN <<>>
    ELSE <<convertToConceptHierarchyConcept(concepts[i])>> \o convertConcepts(concepts, i + 1)

simplifyHierarchicalCodeSystemConcept(codesystem) ==
    [url |-> codesystem.url, concepts |-> convertConcepts(codesystem.concept, 1)]

RECURSIVE extract(_), extractAll(_, _)
extract(root) == <<root.code>> \o extractAll(root.descendants, 1)
extractAll(concepts, i) ==
    IF i > Len(concepts) THEN <<>>
    ELSE extract(concepts[i]) \o extractAll(concepts, i + 1)

extractAllCodesFromHierarchy(hierarchy) == extractAll(hierarchy.concepts, 1)

\* processResource of the CodeSystem generator.
processCodeSystem(env, file, codesystem) ==
    IF codesystem.content = "complete"
    THEN LET hierarchy == simplifyHierarchicalCodeSystemConcept(codesystem)
             allowedValues == extractAllCodesFromHierarchy(hierarchy)
         IN contribute(env, file, hierarchy, ZEnum(Range(allowedValues)))
    ELSE IF codesystem.content \in {"example", "not-present", "fragment"}
    THEN contribute(env, file, Undefined, ZStringMin1)
    ELSE env

-----------------------------------------------------------------------------
(* ValueSet generator: parsing/valueset/schema-generator.ts *)

\* A compose.include or compose.exclude entry is a record
\* [valueSet, system, concept, filter]: valueSet a list of URLs, system a URL
\* or NoUrl, concept a list of [code], filter a list of [property, op, value].

isSystemInclude(include) == include.system # NoUrl
isValueSetInclude(include) == Len(include.valueSet) > 0

RECURSIVE createIncludeSchemasForValueSetFrom(_, _, _, _)
createIncludeSchemasForValueSetFrom(include, i, env, defaultSchema) ==
    IF i > Len(include.valueSet) THEN <<>>
    ELSE <<IF Resolves(env, include.valueSet[i]) THEN SchemaOf(env, include.valueSet[i])
           ELSE defaultSchema>>
         \o createIncludeSchemasForValueSetFrom(include, i + 1, env, defaultSchema)

createIncludeSchemasForValueSet(include, env, defaultSchema) ==
    createIncludeSchemasForValueSetFrom(include, 1, env, defaultSchema)

\* The codes a filter on the concept's code lets through: the valueSchema of
\* createFilterSchema. The operators regex, in and not-in are left out.
FilterValueSchema(codeSystemUrl, filter, env) ==
    LET hierarchy == ResolveResourceOf(env, codeSystemUrl)
    IN IF filter.op = "=" THEN ZLiteral(filter.value)
       ELSE IF filter.op = "generalizes"
       THEN IF isConceptHierarchy(hierarchy)
            THEN LET allowed == <<filter.value>> \o hierarchicalAncestorsOf(hierarchy, filter.value)
                 IN {value \in ZString : value \in Range(allowed)}
            ELSE {value \in ZString : value = filter.value}
       ELSE IF filter.op = "is-a"
       THEN IF isConceptHierarchy(hierarchy)
            THEN LET allowed == <<filter.value>> \o hierarchicalDescendantsOf(hierarchy, filter.value)
                 IN {value \in ZString : value \in Range(allowed)}
            ELSE {value \in ZString : value = filter.value}
       ELSE IF filter.op = "is-not-a"
       THEN IF isConceptHierarchy(hierarchy)
            THEN LET allowed == <<filter.value>> \o hierarchicalDescendantsOf(hierarchy, filter.value)
                 IN {value \in ZString : value \notin Range(allowed)}
            ELSE {value \in ZString : value # filter.value}
       ELSE \* "descendent-of"
            IF isConceptHierarchy(hierarchy)
            THEN LET allowed == hierarchicalDescendantsOf(hierarchy, filter.value)
                 IN {value \in ZString : value \in Range(allowed)}
            ELSE {value \in ZString : value # filter.value}

createFilterSchema(codeSystemUrl, filter, env) ==
    LET valueSchema == FilterValueSchema(codeSystemUrl, filter, env)
        hierarchy == ResolveResourceOf(env, codeSystemUrl)
    IN IF filter.property = "code" THEN valueSchema
       ELSE IF isConceptHierarchy(hierarchy)
       THEN {value \in ZString :
                LET concept == findConcept(hierarchy, value)
                IN /\ concept # Undefined
                   /\ filter.property \in DOMAIN concept.properties
                   /\ concept.properties[filter.property].value = filter.value}
       ELSE ZAny

RECURSIVE andSchemas(_)
andSchemas(schemas) ==
    IF Len(schemas) = 0 THEN ZNever
    ELSE IF Len(schemas) = 1 THEN schemas[1]
    ELSE ZAnd(andSchemas(SubSeq(schemas, 1, Len(schemas) - 1)), schemas[Len(schemas)])

RECURSIVE orSchemas(_)
orSchemas(schemas) ==
    IF Len(schemas) = 0 THEN ZNever
    ELSE IF Len(schemas) = 1 THEN schemas[1]
    ELSE ZOr(orSchemas(SubSeq(schemas, 1, Len(schemas) - 1)), schemas[Len(schemas)])

supportedOps == {"=", "regex", "in", "not-in", "is-a", "is-not-a", "descendent-of", "generalizes"}

RECURSIVE createFilterSchemas(_, _, _, _)
\* implemented.map((f) => createFilterSchema(include.system, f, resolveResource))
createFilterSchemas(codeSystemUrl, implemented, i, env) ==
    IF i > Len(implemented) THEN <<>>
    ELSE <<createFilterSchema(codeSystemUrl, implemented[i], env)>>
         \o createFilterSchemas(codeSystemUrl, implemented, i + 1, env)

createIncludeSchemasForSystem(include, env, defaultSchema) ==
    LET concepts == include.concept
        values == {concepts[i].code : i \in 1..Len(concepts)}
        implemented == SelectSeq(include.filter, LAMBDA f : f.op \in supportedOps)
    IN IF Len(concepts) = 1 THEN <<ZLiteral(concepts[1].code)>>
       ELSE IF Len(concepts) >= 2 THEN <<ZEnum(values)>>
       ELSE IF Len(include.filter) > 0 /\ Len(implemented) > 0
       THEN LET filterSchema ==
                    andSchemas(createFilterSchemas(include.system, implemented, 1, env))
            IN IF Resolves(env, include.system)
               THEN <<ZAnd(SchemaOf(env, include.system), filterSchema)>>
               ELSE <<ZAnd(ZString, filterSchema)>>
       ELSE <<IF Resolves(env, include.system) THEN SchemaOf(env, include.system)
              ELSE defaultSchema>>

RECURSIVE collectSchemasFrom(_, _, _, _)
\* An entry that is neither kind of include makes collectSchemas throw; a
\* ValueSet with such an entry is not among the resources compiled here.
collectSchemasFrom(includes, i, env, defaultSchema) ==
    IF i > Len(includes) THEN <<>>
    ELSE (IF isValueSetInclude(includes[i])
          THEN createIncludeSchemasForValueSet(includes[i], env, defaultSchema)
          ELSE createIncludeSchemasForSystem(includes[i], env, defaultSchema))
         \o collectSchemasFrom(includes, i + 1, env, defaultSchema)

collectSchemas(includes, env, defaultSchema) == collectSchemasFrom(includes, 1, env, defaultSchema)

generateSchemaForIncludes(valueSet, env) ==
    orSchemas(collectSchemas(valueSet.compose.include, env, ZStringMin1))

generateSchemaForExcludes(valueSet, env) ==
    andSchemas(collectSchemas(valueSet.compose.exclude, env, ZNever))

\* processResource of the ValueSet generator.
processValueSet(env, file, valueset) ==
    LET combinedIncludeSchema == generateSchemaForIncludes(valueset, env)
        combinedExcludeSchema == generateSchemaForExcludes(valueset, env)
        combinedSchema == {value \in combinedIncludeSchema : value \notin combinedExcludeSchema}
    IN contribute(env, file, valueset, combinedSchema)

-----------------------------------------------------------------------------
(* StructureDefinition generator: parsing/structuredefinition *)

\* A StructureDefinition is a record [resourceType, url, kind, valueType,
\* element]: valueType is the type code of the value element of a primitive
\* type, element the one child element of a complex type, a record
\* [path, min, max, type, binding] with binding = [strength, valueSet].
\* A document of a complex type is given by the value of that one field,
\* Absent for a document without it.

\* buildSchemaForPrimitiveType, for a value element without a regex extension.
buildSchemaForPrimitiveType(sd, env) ==
    LET code == sd.valueType
    IN IF code # NoUrl /\ Resolves(env, code) THEN SchemaOf(env, code) ELSE ZStringMin1

\* convertElement of convertStructureDefinitionToIntermediateFormat.
convertElement(element) ==
    [fieldName |-> element.path,
     min |-> element.min,
     max |-> element.max,
     type |-> element.type,
     binding |-> IF element.binding.strength = "required" THEN element.binding.valueSet
                 ELSE NoUrl]

\* No value of Values is an array, so z.array(...) accepts none of them.
applyCardinality(itemTypeSchema, min, max) ==
    LET schema == IF max > 1 THEN ZNever ELSE itemTypeSchema
    IN IF min = 0 THEN schema \cup {Absent} ELSE schema

\* addChild of createShape, for a child without constraints, slices or
\* children of its own: the schema stored as shape[child.fieldName].
addChild(child, env) ==
    LET schema == IF Resolves(env, child.type) THEN SchemaOf(env, child.type) ELSE ZAny
    IN applyCardinality(schema, child.min, child.max)

\* convertToSchema: z.object(shape) of the root, with cardinality 1..1.
convertToSchema(imf, env) == applyCardinality(addChild(imf.structure, env), 1, 1)

\* buildSchemaForComplexType: "Object must have some content".
buildSchemaForComplexType(sd, env) ==
    LET imf == [url |-> sd.url, structure |-> convertElement(sd.element)]
    IN {data \in convertToSchema(imf, env) : data # Absent}

buildSchemaForStructureDefinition(sd, env) ==
    IF sd.kind = "primitive-type" THEN buildSchemaForPrimitiveType(sd, env)
    ELSE buildSchemaForComplexType(sd, env)

\* processResource of the StructureDefinition generator, its awaits done.
processStructureDefinition(env, file, sd) ==
    contribute(env, file, sd, buildSchemaForStructureDefinition(sd, env))

-----------------------------------------------------------------------------
(* Specifications of the validators: resources are contributed, a ValueSet *)
(* is written and compiled, a StructureDefinition is compiled against it   *)

ValueSetUrl == NumUrls + 1
ProfileUrl == NumUrls + 2

FlatConcept(code) == [code |-> code, property |-> <<>>, concept |-> <<>>]
GenderedConcept(code, gender, concept) ==
    [code |-> code, property |-> <<[code |-> "gender", valueCode |-> gender]>>,
     concept |-> concept]

\* The concept tree of tests/fixtures/codesystems/resources-codesystem.json.
ResourcesConcepts ==
    <<GenderedConcept("machine", "other",
         <<GenderedConcept("computer", "other",
              <<GenderedConcept("laptop", "other", <<>>),
                GenderedConcept("desktop", "other", <<>>)>>),
           GenderedConcept("robot", "unknown", <<>>)>>),
      GenderedConcept("human", "unknown",
         <<GenderedConcept("adult", "unknown",
              <<GenderedConcept("man", "male", <<>>),
                GenderedConcept("woman", "female", <<>>)>>),
           GenderedConcept("child", "unknown",
              <<GenderedConcept("boy", "male", <<>>),
                GenderedConcept("girl", "female", <<>>)>>)>>)>>

\* The CodeSystem resource published under a URL: a flat complete system, the
\* hierarchical "resources" system, and example systems.
CodeSystemAt(u) ==
    IF u = 1
    THEN [resourceType |-> "CodeSystem", url |-> u, content |-> "complete",
          concept |-> <<FlatConcept("a"), FlatConcept("b"), FlatConcept("c")>>]
    ELSE IF u = 2
    THEN [resourceType |-> "CodeSystem", url |-> u, content |-> "complete",
          concept |-> ResourcesConcepts]
    ELSE [resourceType |-> "CodeSystem", url |-> u, content |-> "example",
          concept |-> <<FlatConcept("a")>>]

FileOf(resource) == [url |-> resource.url, resourceType |-> resource.resourceType]

Entry(valueSet, system, concept, filter) ==
    [valueSet |-> valueSet, system |-> system, concept |-> concept, filter |-> filter]

ConceptLists == {<<>>, <<[code |-> "a"]>>, <<[code |-> "b"], [code |-> "c"]>>}

\* Includes of a whole system, of listed concepts of a system, of a ValueSet.
PlainEntries ==
    {Entry(<<>>, u, c, <<>>) : u \in Urls, c \in ConceptLists}
        \cup {Entry(<<u>>, NoUrl, <<>>, <<>>) : u \in Urls}

FilterOps == {"=", "generalizes", "is-a", "is-not-a", "descendent-of", "exists"}
Filters == [property : {"code", "concept", "gender"}, op : FilterOps, value : {"child", "male"}]

\* Includes of the concepts of a system that pass one filter.
FilterEntries == {Entry(<<>>, u, <<>>, <<f>>) : u \in Urls, f \in Filters}

\* Includes of listed concepts of a system.
ConceptEntries == {e \in PlainEntries : Len(e.concept) > 0}

Elements ==
    [path : {"code"}, min : {0, 1}, max : {1}, type : Urls,
     binding : [strength : {"required", "extensible"}, valueSet : {ValueSetUrl}]]

Env == [host |-> host, schemaMap |-> schemaMap, resourceMap |-> resourceMap]

BecomesEnv(env) == schemaMap' = env.schemaMap /\ resourceMap' = env.resourceMap

InitValidators ==
    /\ host \in Hosts /\ schemaMap = <<>> /\ resourceMap = <<>>
    /\ composeInclude = <<>> /\ composeExclude = <<>> /\ profile = <<>> /\ vpc = "contribute"
    /\ SortIdle /\ DedupeIdle /\ CompileIdle /\ FacadeIdle
    /\ DocumentsIdle /\ HierarchyIdle /\ IntermediateIdle /\ OthersIdle

\* The driver hands the CodeSystem published under u to its generator.
ContributeCodeSystem(u) ==
    /\ vpc = "contribute"
    /\ u \notin DOMAIN schemaMap
    /\ BecomesEnv(processCodeSystem(Env, FileOf(CodeSystemAt(u)), CodeSystemAt(u)))
    /\ UNCHANGED <<host, composeInclude, composeExclude, profile, vpc>>
    /\ UNCHANGED <<sortVars, dedupeVars, compileVars, facadeVars, documentVars, hierarchyVars, intermediateVars, kindVars, dependencyVars, promiseVars, loaderVars>>

\* The compile loop hands the StructureDefinition of a primitive type to its generator.
ContributePrimitiveType(u) ==
    /\ vpc = "contribute"
    /\ host = "generateZodSchemasForResourceFiles"
    /\ u \notin DOMAIN schemaMap
    /\ LET sd == [resourceType |-> "StructureDefinition", url |-> u,
                  kind |-> "primitive-type", valueType |-> NoUrl, element |-> <<>>]
       IN BecomesEnv(processStructureDefinition(Env, FileOf(sd), sd))
    /\ UNCHANGED <<host, composeInclude, composeExclude, profile, vpc>>
    /\ UNCHANGED <<sortVars, dedupeVars, compileVars, facadeVars, documentVars, hierarchyVars, intermediateVars, kindVars, dependencyVars, promiseVars, loaderVars>>

\* The ValueSet's author writes one more compose.include entry.
AddInclude(e) ==
    /\ vpc \in {"contribute", "compose"}
    /\ Len(composeInclude) < MaxIncludes
    /\ isValueSetInclude(e) \/ isSystemInclude(e)
    /\ composeInclude' = Append(composeInclude, e)
    /\ vpc' = "compose"
    /\ UNCHANGED <<host, schemaMap, resourceMap, composeExclude, profile>>
    /\ UNCHANGED <<sortVars, dedupeVars, compileVars, facadeVars, documentVars, hierarchyVars, intermediateVars, kindVars, dependencyVars, promiseVars, loaderVars>>

\* The ValueSet's author writes one more compose.exclude entry.
AddExclude(e) ==
    /\ vpc \in {"contribute", "compose"}
    /\ Len(composeExclude) < MaxExcludes
    /\ isValueSetInclude(e) \/ isSystemInclude(e)
    /\ composeExclude' = Append(composeExclude, e)
    /\ vpc' = "compose"
    /\ UNCHANGED <<host, schemaMap, resourceMap, composeInclude, profile>>
    /\ UNCHANGED <<sortVars, dedupeVars, compileVars, facadeVars, documentVars, hierarchyVars, intermediateVars, kindVars, dependencyVars, promiseVars, loaderVars>>

\* The driver hands the ValueSet to its generator.
CompileValueSet ==
    /\ vpc \in {"contribute", "compose"}
    /\ LET valueset == [resourceType |-> "ValueSet", url |-> ValueSetUrl,
                        compose |-> [include |-> composeInclude, exclude |-> composeExclude]]
       IN BecomesEnv(processValueSet(Env, FileOf(valueset), valueset))
    /\ vpc' = "compiled"
    /\ UNCHANGED <<host, composeInclude, composeExclude, profile>>
    /\ UNCHANGED <<sortVars, dedupeVars, compileVars, facadeVars, documentVars, hierarchyVars, intermediateVars, kindVars, dependencyVars, promiseVars, loaderVars>>

\* The compile loop hands a complex-type StructureDefinition with the one
\* element to its generator.
CompileStructureDefinition(element) ==
    /\ vpc = "compiled"
    /\ host = "generateZodSchemasForResourceFiles"
    /\ LET sd == [resourceType |-> "StructureDefinition", url |-> ProfileUrl,
                  kind |-> "complex-type", valueType |-> NoUrl, element |-> element]
       IN /\ profile' = sd
          /\ BecomesEnv(processStructureDefinition(Env, FileOf(sd), sd))
    /\ vpc' = "profiled"
    /\ UNCHANGED <<host, composeInclude, composeExclude>>
    /\ UNCHANGED <<sortVars, dedupeVars, compileVars, facadeVars, documentVars, hierarchyVars, intermediateVars, kindVars, dependencyVars, promiseVars, loaderVars>>

NextValueSet ==
    \/ \E u \in Urls : ContributeCodeSystem(u)
    \/ \E e \in PlainEntries : AddInclude(e)
    \/ \E e \in PlainEntries : AddExclude(e)
    \/ CompileValueSet

SpecValueSet == InitValidators /\ [][NextValueSet]_vars

NextFilter ==
    \/ \E u \in Urls : ContributeCodeSystem(u)
    \/ \E e \in FilterEntries : AddInclude(e)
    \/ CompileValueSet

SpecFilter == InitValidators /\ [][NextFilter]_vars

NextBinding ==
    \/ \E u \in Urls : ContributeCodeSystem(u)
    \/ \E u \in Urls : ContributePrimitiveType(u)
    \/ \E e \in ConceptEntries : AddInclude(e)
    \/ CompileValueSet
    \/ \E element \in Elements : CompileStructureDefinition(element)

SpecBinding == InitValidators /\ [][NextBinding]_vars

-----------------------------------------------------------------------------
(* Properties of the validators *)

\* Does a value pass one compose.include entry, one compose.exclude entry.
PassesInclude(entry, value) == value \in orSchemas(collectSchemas(<<entry>>, Env, ZStringMin1))
PassesExclude(entry, value) == value \in orSchemas(collectSchemas(<<entry>>, Env, ZNever))

\* C4: the compiled ValueSet validator accepts a value iff the value passes
\* at least one compose.include entry and none of the compose.exclude
\* entries; a value that a single one of several excludes matches is rejected.
C4_IncludeExcludeSemantics ==
    vpc = "compiled" =>
        \A value \in Values :
            value \in schemaMap[ValueSetUrl]
                <=> /\ \E i \in 1..Len(composeInclude) : PassesInclude(composeInclude[i], value)
                    /\ \A j \in 1..Len(composeExclude) : ~PassesExclude(composeExclude[j], value)

RECURSIVE CodesUnder(_)
\* The codes of a concept's strict descendants.
CodesUnder(concept) ==
    UNION {{concept.descendants[i].code} \cup CodesUnder(concept.descendants[i]) :
              i \in 1..Len(concept.descendants)}

RECURSIVE ConceptsIn(_)
ConceptsIn(concepts) ==
    UNION {{concepts[i]} \cup ConceptsIn(concepts[i].descendants) : i \in 1..Len(concepts)}

\* Is code the concept v of the hierarchy or one of its transitive descendants.
IsA(hierarchy, v, code) ==
    \E concept \in ConceptsIn(hierarchy.concepts) :
        concept.code = v /\ (code = v \/ code \in CodesUnder(concept))

\* C9: a ValueSet whose one include has the one filter {op: is-a, value: v},
\* v a concept of the system, compiled with the system's hierarchy at hand,
\* accepts a code iff the code is v or a transitive descendant of v.
C9_IsAFilterAcceptsDescendants ==
    (/\ vpc = "compiled"
     /\ Len(composeInclude) = 1
     /\ composeInclude[1].filter[1].op = "is-a"
     /\ isConceptHierarchy(ResolveResourceOf(Env, composeInclude[1].system))
     /\ findConcept(ResolveResourceOf(Env, composeInclude[1].system),
                    composeInclude[1].filter[1].value) # Undefined)
        => \A code \in Values :
              code \in schemaMap[ValueSetUrl]
                  <=> IsA(ResolveResourceOf(Env, composeInclude[1].system),
                          composeInclude[1].filter[1].value, code)

\* C5: the validator of a StructureDefinition whose element has a required
\* binding to a compiled ValueSet accepts no document whose value for the
\* element is outside the ValueSet.
C5_RequiredBindingEnforced ==
    (/\ vpc = "profiled"
     /\ profile.element.binding.strength = "required"
     /\ profile.element.binding.valueSet \in DOMAIN schemaMap)
        => \A data \in schemaMap[ProfileUrl] :
              data \in schemaMap[profile.element.binding.valueSet]

-----------------------------------------------------------------------------
(* generateZodSchemasForResourceFiles as a whole: what its promise resolves to *)

\* The promise job at the head of the queue runs.
RunJob(st, sorted) ==
    LET job == Head(st.jobs)
        rest == [st EXCEPT !.jobs = Tail(@)]
    IN CASE job.k = "buildSchemaForComplexType" ->
                [rest EXCEPT !.jobs = Append(@, [k |-> "buildSchemaForStructureDefinition",
                                                 i |-> job.i])]
         [] job.k = "buildSchemaForStructureDefinition" ->
                [rest EXCEPT !.jobs = Append(@, [k |-> "contribute", i |-> job.i])]
         [] job.k = "contribute" -> contributeStructureDefinition(rest, sorted[job.i])
         [] job.k = "loop" -> LoopFrom(rest, sorted, job.i + 1)

RECURSIVE RunUntilReturned(_, _)
RunUntilReturned(st, sorted) ==
    IF st.cpc = "returned" THEN st ELSE RunUntilReturned(RunJob(st, sorted), sorted)

\* The compiler as it is when generateZodSchemasForResourceFiles returns;
\* snapshot holds the URLs that are keys of the returned { ...Schemas, ...results }.
generateZodSchemasForResourceFiles(resourceFiles) ==
    LET sorted == CompileOrder(removeOverlappingDefinitions(resourceFiles))
        start == [results |-> {}, resources |-> <<>>, jobs |-> <<>>, rejected |-> {},
                  degraded |-> {}, log |-> <<>>, snapshot |-> {}, cpc |-> "run"]
    IN RunUntilReturned(LoopFrom(start, sorted, 1), sorted)

-----------------------------------------------------------------------------
(* DefaultResourceLoader: the files of the packages loaded so far *)

resourceTypeOrder ==
    <<"ImplementationGuide", "StructureDefinition", "ValueSet", "CodeSystem", "ConceptMap">>
kindOrder == <<"resource", "complex-type", "primitive">>

\* The name of a resource file; 0 is a missing name, and so is the name of
\* the files described without one.
NameOf(file) == IF "name" \in DOMAIN file THEN file.name ELSE 0

\* sortResourceFilesByKind; resourceType "" is a missing resourceType, kind ""
\* a missing kind, names and URLs are numbered in localeCompare order.
sortResourceFilesByKind(a, b) ==
    LET byType == IndexOf(resourceTypeOrder, b.resourceType)
                      - IndexOf(resourceTypeOrder, a.resourceType)
        byKind == IF a.kind # "" /\ b.kind # ""
                  THEN IndexOf(kindOrder, b.kind) - IndexOf(kindOrder, a.kind)
                  ELSE IF a.kind # "" THEN -1
                  ELSE IF b.kind # "" THEN 1
                  ELSE 0
        byName == IF NameOf(a) # 0 /\ NameOf(b) # 0
                  THEN LocaleCompare(NameOf(a), NameOf(b))
                  ELSE IF NameOf(a) # 0 THEN -1
                  ELSE IF NameOf(b) # 0 THEN 1
                  ELSE 0
    IN IF a.resourceType = "" /\ b.resourceType = "" THEN 0
       ELSE IF a.resourceType # "" /\ b.resourceType = "" THEN -1
       ELSE IF a.resourceType = "" /\ b.resourceType # "" THEN 1
       ELSE IF byType # 0 THEN byType
       ELSE IF byKind # 0 THEN byKind
       ELSE IF byName # 0 THEN byName
       ELSE LocaleCompare(a.url, b.url)

\* One step of a stable insertion sort under sortResourceFilesByKind.
InsertByKind(out, x) ==
    LET k == IF \E i \in 1..Len(out) : sortResourceFilesByKind(out[i], x) > 0
             THEN CHOOSE i \in 1..Len(out) :
                      /\ sortResourceFilesByKind(out[i], x) > 0
                      /\ \A j \in 1..(i - 1) : sortResourceFilesByKind(out[j], x) <= 0
             ELSE Len(out) + 1
    IN SubSeq(out, 1, k - 1) \o <<x>> \o SubSeq(out, k, Len(out))

RECURSIVE ArraySortByKind(_, _, _)
ArraySortByKind(files, i, out) ==
    IF i > Len(files) THEN out
    ELSE ArraySortByKind(files, i + 1, InsertByKind(out, files[i]))

RECURSIVE uniqueByFilePath(_, _)
uniqueByFilePath(arr, seen) ==
    IF arr = <<>> THEN <<>>
    ELSE IF Head(arr).filePath \in seen THEN uniqueByFilePath(Tail(arr), seen)
         ELSE <<Head(arr)>> \o uniqueByFilePath(Tail(arr), seen \cup {Head(arr).filePath})

\* The dependencyMap sortResourceFilesByDependencies builds: one entry per
\* URL in the order of first occurrence, the lists of files of one URL merged.
dependencyMap(resourceFiles) ==
    LET urls == Unique([i \in 1..Len(resourceFiles) |-> resourceFiles[i].url], {})
    IN [k \in 1..Len(urls) |->
           [url |-> urls[k],
            deps |-> UNION {resourceFiles[i].deps :
                               i \in {j \in 1..Len(resourceFiles) : resourceFiles[j].url = urls[k]}}]]

sortResourceFiles(combinedFiles) ==
    LET kindSortedFiles == ArraySortByKind(uniqueByFilePath(combinedFiles, {}), 1, <<>>)
    IN ArraySortByDependencies(
           topologicalSortWithTransitiveResolution(dependencyMap(kindSortedFiles)).sorted,
           kindSortedFiles, 1, <<>>)

\* A resource file of a package, as detectResourceFile describes it.
PackageFile(path, u, resourceType, kind, D, d, malformed) ==
    [filePath |-> path, url |-> u, resourceType |-> resourceType, kind |-> kind,
     content |-> "", deps |-> D, malformed |-> malformed,
     status |-> "active", experimental |-> "false", date |-> d]

\* The packages of the registry: a profile; a primitive type with a value
\* set; a newer version of the profile that binds to the value set; a newer
\* version of the value set with an include that names neither a system nor
\* a value set; a version of the profile, newer still, without root element.
PackageFiles(p) ==
    CASE p = 1 -> <<PackageFile(11, 1, "StructureDefinition", "complex-type", {}, 1, FALSE)>>
      [] p = 2 -> <<PackageFile(21, 2, "StructureDefinition", "primitive-type", {}, 1, FALSE),
                    PackageFile(22, 3, "ValueSet", "", {}, 1, FALSE)>>
      [] p = 3 -> <<PackageFile(31, 1, "StructureDefinition", "complex-type", {3}, 2, FALSE)>>
      [] p = 4 -> <<PackageFile(41, 3, "ValueSet", "", {}, 2, TRUE)>>
      [] p = 5 -> <<PackageFile(51, 1, "StructureDefinition", "complex-type", {}, 3, TRUE)>>
      [] OTHER -> <<>>

\* loadResources of the packages named, collectResourceFiles' sort included.
loadResources(p) == ArraySortByKind(PackageFiles(p), 1, <<>>)

-----------------------------------------------------------------------------
(* FhirValidator.validate *)

\* Schemas, the built-in schemas every generation starts from, is not empty.
HasBuiltInSchemas == TRUE

\* The profiles a document can pass the validators of.
ConformUrls == {1, 2}

\* What the resource is once validate has read its input: an object with its
\* meta.profile, its url and the validators it passes, null, a number, or a
\* string.
ObjectResources ==
    [type : {"object"}, profile : {<<>>} \cup {<<u>> : u \in Urls},
     url : {NoUrl} \cup Urls, conforms : SUBSET ConformUrls]
PlainResources ==
    [type : {"number", "string"}, profile : {<<>>}, url : {NoUrl}, conforms : SUBSET ConformUrls]
NullResource == [type |-> "null", profile |-> <<>>, url |-> NoUrl, conforms |-> {}]
NotJson == [type |-> "invalid", profile |-> <<>>, url |-> NoUrl, conforms |-> {}]

\* The resource argument of validate: an object, a string that holds JSON, a
\* string that holds no JSON, or the path of a file with the content given.
Inputs ==
    [form : {"object"}, value : ObjectResources]
    \cup [form : {"json"},
          value : ObjectResources \cup {NullResource}
                  \cup {r \in PlainResources : r.type = "number"}]
    \cup [form : {"text"}, value : {r \in PlainResources : r.type = "string"}]
    \cup [form : {"path"}, value : ObjectResources \cup {NullResource, NotJson}]

ValidateOptions ==
    [profiles : {<<>>} \cup {<<u>> : u \in Urls},
     ignoreSelfDeclaredProfiles : BOOLEAN, ignoreUnknownSchemas : BOOLEAN]

Returned(input, options, success, errors) ==
    [kind |-> "returned", input |-> input, options |-> options,
     success |-> success, errors |-> errors]
Rejected(input, options) ==
    [kind |-> "rejected", input |-> input, options |-> options,
     success |-> FALSE, errors |-> <<>>]

\* schema.safeParseAsync(resource).success for the validator stored under a
\* profile; anys are the profiles stored with z.any().optional().
safeParseAsync(anys, p, resource) == p \in anys \/ p \in resource.conforms

CouldNotFindSchema(p) == [message |-> "Could not find schema for", profile |-> p]
Issue(p) == [message |-> "issue", profile |-> p]

RECURSIVE errorsOfProfiles(_, _, _, _, _)
\* profiles.map(async (profile) => ...) and .flat(), from profile i on.
errorsOfProfiles(schemas, anys, profiles, resource, options) ==
    IF profiles = <<>> THEN <<>>
    ELSE LET p == Head(profiles)
             errs == IF p \in schemas
                     THEN (IF safeParseAsync(anys, p, resource) THEN <<>> ELSE <<Issue(p)>>)
                     ELSE IF options.ignoreUnknownSchemas THEN <<>>
                     ELSE <<CouldNotFindSchema(p)>>
         IN errs \o errorsOfProfiles(schemas, anys, Tail(profiles), resource, options)

\* validate(resource, options), schemas being what loadedSchemas resolved to.
validate(schemas, anys, input, options) ==
    IF ~HasBuiltInSchemas /\ schemas = {}
    THEN Returned(input, options, FALSE, <<[message |-> "0 schemas loaded", profile |-> NoUrl]>>)
    ELSE IF input.form = "path" /\ input.value.type = "invalid"
    THEN Rejected(input, options)        \* JSON.parse in readJSONFromFilePath throws
    ELSE LET resource == input.value
         IN IF resource.type = "null"
            THEN Rejected(input, options)    \* a property of null is read
            ELSE LET profiles ==
                         options.profiles
                         \o (IF options.ignoreSelfDeclaredProfiles THEN <<>> ELSE resource.profile)
                         \o (IF resource.url # NoUrl THEN <<resource.url>> ELSE <<>>)
                     errors == errorsOfProfiles(schemas, anys, profiles, resource, options)
                 IN IF Len(errors) = 0
                    THEN Returned(input, options, TRUE, <<>>)
                    ELSE Returned(input, options, FALSE, Unique(errors, {}))

-----------------------------------------------------------------------------
(* Specification SpecFacade: packages are loaded call by call, then a document
   is validated *)

\* new FhirValidator(): the constructor's loadPackages() with no package.
InitFacade ==
    /\ packages = <<>> /\ loaderFiles = <<>> /\ facadeFiles = <<>>
    /\ facadeSchemas = generateZodSchemasForResourceFiles(<<>>).snapshot
    /\ lastLoad = NoLoad /\ outcome = NoOutcome /\ fpc = "ready"
    /\ SortIdle /\ DedupeIdle /\ CompileIdle /\ ValidatorsIdle
    /\ DocumentsIdle /\ HierarchyIdle /\ IntermediateIdle /\ OthersIdle

\* await validator.loadPackages(p): the loader adds the package's files to
\* its own and returns them all, the facade appends what it got to
\* loadedFiles and generates the schemas anew.
LoadPackages(p) ==
    /\ fpc = "ready" /\ outcome = NoOutcome
    /\ Len(packages) < MaxLoads
    /\ packages' = Append(packages, p)
    /\ loaderFiles' = sortResourceFiles(loaderFiles \o loadResources(p))
    /\ facadeFiles' = facadeFiles \o loaderFiles'
    /\ LET st == generateZodSchemasForResourceFiles(facadeFiles')
       IN /\ facadeSchemas' = st.snapshot
          /\ lastLoad' = [rejected |-> st.rejected, degraded |-> st.degraded \cap st.snapshot]
    /\ UNCHANGED <<outcome, fpc, sortVars, dedupeVars, compileVars, validatorVars, documentVars, hierarchyVars, intermediateVars, kindVars, dependencyVars, promiseVars, loaderVars>>

\* await validator.validate(input, options)
Validate(input, options) ==
    /\ fpc = "ready" /\ outcome = NoOutcome
    /\ outcome' = validate(facadeSchemas, lastLoad.degraded, input, options)
    /\ UNCHANGED <<packages, loaderFiles, facadeFiles, facadeSchemas, lastLoad, fpc>>
    /\ UNCHANGED <<sortVars, dedupeVars, compileVars, validatorVars, documentVars, hierarchyVars, intermediateVars, kindVars, dependencyVars, promiseVars, loaderVars>>

NextFacade ==
    \/ \E p \in 1..NumPackages : LoadPackages(p)
    \/ /\ outcome = NoOutcome
       /\ \E input \in Inputs, options \in ValidateOptions : Validate(input, options)

SpecFacade == InitFacade /\ [][NextFacade]_vars

\* The profiles the specification has validate judge the document by:
\* options.profiles, the document's meta.profile unless they are ignored, and
\* the document's url.
EffectiveProfiles(o) ==
    Range(o.options.profiles)
    \cup (IF o.options.ignoreSelfDeclaredProfiles THEN {} ELSE Range(o.input.value.profile))
    \cup (IF o.input.value.url # NoUrl THEN {o.input.value.url} ELSE {})

ProfileAccepts(o, p) ==
    \/ p \in facadeSchemas /\ safeParseAsync(lastLoad.degraded, p, o.input.value)
    \/ p \notin facadeSchemas /\ o.options.ignoreUnknownSchemas

\* C13: validate returns success = true exactly when every profile of the
\* effective list either has a validator the document passes or has none
\* while unknown schemas are ignored; a profile without a validator, unknown
\* schemas not ignored, gives success = false and a "Could not find schema"
\* error for it.
C13_SuccessIffEveryProfileAccepts ==
    outcome # NoOutcome =>
        /\ (outcome.kind = "returned" /\ outcome.success)
              <=> \A p \in EffectiveProfiles(outcome) : ProfileAccepts(outcome, p)
        /\ \A p \in EffectiveProfiles(outcome) :
              (p \notin facadeSchemas /\ ~outcome.options.ignoreUnknownSchemas)
                 => /\ outcome.kind = "returned" /\ ~outcome.success
                    /\ CouldNotFindSchema(p) \in Range(outcome.errors)

\* The statement of C13 for the calls that return.
C13_WhenValidateReturns ==
    outcome.kind = "returned" =>
        /\ outcome.success
              <=> \A p \in EffectiveProfiles(outcome) : ProfileAccepts(outcome, p)
        /\ \A p \in EffectiveProfiles(outcome) :
              (p \notin facadeSchemas /\ ~outcome.options.ignoreUnknownSchemas)
                 => ~outcome.success /\ CouldNotFindSchema(p) \in Range(outcome.errors)

\* C14: validate never throws or rejects, whatever the document and the
\* options: every call returns a result, and a result that is no success
\* lists its errors.
C14_ValidateNeverRejects ==
    outcome # NoOutcome =>
        /\ outcome.kind = "returned"
        /\ ~outcome.success => Len(outcome.errors) > 0

\* C16: a profile that is recognized when a load begins is recognized when
\* it has ended, and after every load the URL of every file of the packages
\* loaded so far is recognized.
C16_LoadingIsCumulative ==
    [][(packages' # packages) =>
          /\ facadeSchemas \subseteq facadeSchemas'
          /\ \A i \in 1..Len(packages') : \A k \in 1..Len(PackageFiles(packages'[i])) :
                PackageFiles(packages'[i])[k].url \in facadeSchemas']_vars

\* The first half of C16 alone.
C16_RecognizedStaysRecognized ==
    [][(packages' # packages) => facadeSchemas \subseteq facadeSchemas']_vars

\* The second half of C16 alone.
C16_LoadedIsRecognized ==
    \A i \in 1..Len(packages) : \A k \in 1..Len(PackageFiles(packages[i])) :
        PackageFiles(packages[i])[k].url \in facadeSchemas

\* The files the last generation compiled: one per URL.
Compiled == removeOverlappingDefinitions(facadeFiles)

\* C15: when a definition that is compiled is malformed, the load leaves no
\* rejected promise behind, the malformed definition's URL is recognized
\* with a validator that accepts anything, and every other definition
\* compiled with it is recognized.
C15_CompileErrorsNeverEscape ==
    (\E i \in 1..Len(Compiled) : Compiled[i].malformed) =>
        /\ lastLoad.rejected = {}
        /\ \A i \in 1..Len(Compiled) :
              /\ Compiled[i].url \in facadeSchemas
              /\ Compiled[i].malformed => Compiled[i].url \in lastLoad.degraded

\* C15 for the malformed ValueSet alone: no rejected promise is left behind
\* and the ValueSet gets a validator that accepts anything.
C15_MalformedValueSetDegrades ==
    \A i \in 1..Len(Compiled) :
        (Compiled[i].malformed /\ Compiled[i].resourceType = "ValueSet") =>
            /\ lastLoad.rejected = {}
            /\ Compiled[i].url \in lastLoad.degraded

\* A malformed StructureDefinition that is recognized accepts anything.
C15_MalformedStructureDefinitionIsAny ==
    \A i \in 1..Len(Compiled) :
        ( /\ Compiled[i].malformed /\ Compiled[i].resourceType = "StructureDefinition"
          /\ Compiled[i].url \in facadeSchemas ) => Compiled[i].url \in lastLoad.degraded

-----------------------------------------------------------------------------
(* Specification SpecHierarchy: a concept forest is written concept by concept,
   then its descendants are queried.  Codes are the integers 1..NumCodes. *)

NumCodes == 4
MaxConcepts == 4

Codes == 1..NumCodes

\* A concept of a ConceptHierarchy without descendants yet.
LeafConcept(code) == [code |-> code, properties |-> <<>>, descendants |-> <<>>]

RECURSIVE WithChild(_, _, _)
\* The concepts with one more concept as the last descendant of parent.
WithChild(concepts, parent, concept) ==
    [i \in 1..Len(concepts) |->
        IF concepts[i].code = parent
        THEN [concepts[i] EXCEPT !.descendants = Append(@, concept)]
        ELSE [concepts[i] EXCEPT !.descendants = WithChild(@, parent, concept)]]

\* The codes of the forest.
ForestCodes == {concept.code : concept \in ConceptsIn(conceptForest)}

\* The ConceptHierarchy the forest is the concepts of.
TheHierarchy == [url |-> 1, concepts |-> conceptForest]

InitHierarchy ==
    /\ conceptForest = <<>> /\ lookupResult = NoLookup
    /\ SortIdle /\ DedupeIdle /\ CompileIdle /\ ValidatorsIdle /\ FacadeIdle
    /\ DocumentsIdle /\ IntermediateIdle /\ OthersIdle

\* One more concept with a code of its own, as a root (parent = 0) or as the
\* last descendant of a concept of the forest.
WriteConcept(parent, code) ==
    /\ lookupResult = NoLookup
    /\ Cardinality(ForestCodes) < MaxConcepts
    /\ code \notin ForestCodes
    /\ parent = 0 \/ parent \in ForestCodes
    /\ conceptForest' = IF parent = 0 THEN Append(conceptForest, LeafConcept(code))
                        ELSE WithChild(conceptForest, parent, LeafConcept(code))
    /\ UNCHANGED lookupResult
    /\ UNCHANGED <<sortVars, dedupeVars, compileVars, validatorVars, facadeVars, documentVars, intermediateVars, kindVars, dependencyVars, promiseVars, loaderVars>>

\* hierarchicalDescendantsOf(hierarchy, code)
Descendants(code) ==
    /\ lookupResult' = [code |-> code,
                        descendants |-> hierarchicalDescendantsOf(TheHierarchy, code)]
    /\ UNCHANGED conceptForest
    /\ UNCHANGED <<sortVars, dedupeVars, compileVars, validatorVars, facadeVars, documentVars, intermediateVars, kindVars, dependencyVars, promiseVars, loaderVars>>

NextHierarchy ==
    \/ \E parent \in 0..NumCodes, code \in Codes : WriteConcept(parent, code)
    \/ \E code \in Codes : Descendants(code)

SpecHierarchy == InitHierarchy /\ [][NextHierarchy]_vars

\* The pairs <<parent code, child code>> of the forest.
ChildEdges ==
    UNION {{<<concept.code, concept.descendants[i].code>> : i \in 1..Len(concept.descendants)} :
              concept \in ConceptsIn(conceptForest)}

RECURSIVE Below(_, _)
\* The codes reached from the codes of S by one edge or more, at most n.
Below(S, n) ==
    IF n = 0 THEN {}
    ELSE LET children == {e[2] : e \in {d \in ChildEdges : d[1] \in S}}
         IN children \cup Below(children, n - 1)

\* The codes of the subtree rooted at code, code itself left out.
StrictSubtree(code) == Below({code}, MaxConcepts)

\* C19: on a forest without a code twice, the descendants of a code are the
\* codes of the subtree rooted at it without the code itself, each once, and
\* the empty list for a code that is not in the forest.
C19_DescendantsAreTheStrictSubtree ==
    lookupResult # NoLookup =>
        /\ Range(lookupResult.descendants) = StrictSubtree(lookupResult.code)
        /\ Len(lookupResult.descendants) = Cardinality(StrictSubtree(lookupResult.code))
        /\ lookupResult.code \notin Range(lookupResult.descendants)
        /\ lookupResult.code \notin ForestCodes => lookupResult.descendants = <<>>

\* A concept with a grandchild was queried.
C19_Witness ==
    /\ lookupResult # NoLookup
    /\ \E e \in ChildEdges, f \in ChildEdges :
          e[1] = lookupResult.code /\ f[1] = e[2] /\ f[2] \in Range(lookupResult.descendants)

\* A code that is not in the forest was queried.
C19_AbsentCodeWitness ==
    /\ lookupResult # NoLookup /\ conceptForest # <<>>
    /\ lookupResult.code \notin ForestCodes

-----------------------------------------------------------------------------
(* Documents and schemas, structurally: z.object, z.array, intersections and
   refinements as zod evaluates them.

   A field name is a list of name parts, so that "asNeeded[x]" is
   <<"asNeeded", "[x]">> and "asNeededBoolean" is <<"asNeeded", "Boolean">>:
   String.prototype.startsWith is the prefix order of the lists, endsWith
   looks at the last part, and string concatenation is \o. *)

FieldName(s) == <<s>>

\* key.startsWith(prefix)
startsWith(key, prefix) ==
    Len(prefix) <= Len(key) /\ SubSeq(key, 1, Len(prefix)) = prefix

\* fieldName.endsWith("[x]")
endsWithX(fieldName) == fieldName # <<>> /\ fieldName[Len(fieldName)] = "[x]"

\* s.charAt(0).toUpperCase() + s.slice(1), on the type codes of the model.
capitalizeFirstLetter(s) ==
    CASE s = "boolean" -> "Boolean"
      [] s = "string" -> "String"
      [] s = "code" -> "Code"
      [] OTHER -> s

\* JSON values: [t, s, b, o, a] with t the type and, according to it, s the
\* string, b the boolean, o the function from field names to the values of
\* an object's fields, a the list of an array's elements.
NoFields == [key \in {} |-> FALSE]
JUndefined == [t |-> "undefined", s |-> "", b |-> FALSE, o |-> NoFields, a |-> <<>>]
JString(s) == [JUndefined EXCEPT !.t = "string", !.s = s]
JBoolean(b) == [JUndefined EXCEPT !.t = "boolean", !.b = b]
JObject(fields) == [JUndefined EXCEPT !.t = "object", !.o = fields]
JArray(items) == [JUndefined EXCEPT !.t = "array", !.a = items]

\* The object without a field.
EmptyObject == JObject(NoFields)

\* Does the string match the regular expression of the simple type.
\* code is /^[^\s]+( [^\s]+)*$/, uri is /^[^\s]+/.
Matches(regex, s) ==
    CASE regex = "" -> TRUE
      [] regex = "code" -> s # " "
      [] regex = "uri" -> s # " "
      [] OTHER -> TRUE

\* Maximum cardinality for a field: stands for "*".
MAX_CARDINALITY == 999999999

ZodAny == [kind |-> "any"]
ZodBoolean == [kind |-> "boolean"]
ZodString(regex) == [kind |-> "string", regex |-> regex]
ZodEnumOf(values) == [kind |-> "enum", values |-> values]
ZodOptional(schema) == [kind |-> "optional", inner |-> schema]
ZodArray(schema, min, max) == [kind |-> "array", element |-> schema, min |-> min, max |-> max]
ZodObject(shape) == [kind |-> "object", shape |-> shape]
ZodAnd(left, right) == [kind |-> "and", left |-> left, right |-> right]
ZodOr(left, right) == [kind |-> "or", left |-> left, right |-> right]
ZodEffects(schema, refinement) == [kind |-> "effects", inner |-> schema, refinement |-> refinement]
\* What resolveSchema returns for a name it has no schema for.
NoZodSchema == [kind |-> "undefined"]

\* A segment of ctx.path: the key of an object or the index of an array.
KeySegment(key) == [key |-> key]
IndexSegment(i) == [index |-> i]

\* typeof lastPathSegment === "number" || lastPathSegment?.match(/^\d+$/)
LastSegmentIsIndex(path) == path # <<>> /\ "index" \in DOMAIN path[Len(path)]

\* Object.keys(data)
ObjectKeys(data) ==
    CASE data.t = "object" -> DOMAIN data.o
      [] data.t = "array" -> {<<ToString(i - 1)>> : i \in 1..Len(data.a)}
      [] data.t = "string" -> IF data.s = "" THEN {} ELSE {<<"0">>}
      [] OTHER -> {}

\* The refinement closures, as records; Issues tells whether the refinement
\* calls ctx.addIssue.
MustHaveAtMostOneFieldStartingWith(prefix) ==
    [name |-> "MustHaveAtMostOneFieldStartingWith", prefix |-> prefix]
ObjectMustNotBeEmpty == [name |-> "ObjectMustNotBeEmpty", prefix |-> <<>>]
\* The arrow function of buildSchemaForComplexType.
ObjectMustHaveSomeContent == [name |-> "Object must have some content", prefix |-> <<>>]

\* The members called key of a list of nodes, collections flattened: one
\* step of a FHIRPath path expression.
RECURSIVE memberOf(_, _)
memberOf(nodes, key) ==
    IF nodes = <<>> THEN <<>>
    ELSE LET node == Head(nodes)
             here == IF node.t = "object" /\ key \in DOMAIN node.o
                     THEN IF node.o[key].t = "array" THEN node.o[key].a ELSE <<node.o[key]>>
                     ELSE <<>>
         IN here \o memberOf(Tail(nodes), key)

RECURSIVE evaluatePath(_, _, _)
\* fhirpath.evaluate(data, "a.b.c"): the path is the list of its names.
evaluatePath(nodes, path, i) ==
    IF i > Len(path) THEN nodes
    ELSE evaluatePath(memberOf(nodes, path[i]), path, i + 1)

\* The FHIRPath expressions of the model: [kind, path] with kind "path" (the
\* path itself), "exists" (path.exists()), "empty" (path.empty()) or
\* "invalid" (an expression the parser rejects).
FhirPathExpression(kind, path) == [kind |-> kind, path |-> path]

\* fhirpath.evaluate(data, expression): [thrown, result].
fhirpathEvaluate(data, expression) ==
    LET nodes == evaluatePath(<<data>>, expression.path, 1)
    IN CASE expression.kind = "invalid" -> [thrown |-> TRUE, result |-> <<>>]
         [] expression.kind = "exists" ->
                [thrown |-> FALSE, result |-> <<JBoolean(nodes # <<>>)>>]
         [] expression.kind = "empty" ->
                [thrown |-> FALSE, result |-> <<JBoolean(nodes = <<>>)>>]
         [] OTHER -> [thrown |-> FALSE, result |-> nodes]

\* !!value
Truthy(value) ==
    CASE value.t = "undefined" -> FALSE
      [] value.t = "boolean" -> value.b
      [] value.t = "string" -> value.s # ""
      [] OTHER -> TRUE

\* a === b: objects and arrays of different origin are never identical.
StrictEquals(a, b) == a.t = b.t /\ a.t \in {"undefined", "boolean", "string"} /\ a = b

\* list[0]
First(list) == IF list = <<>> THEN JUndefined ELSE list[1]

\* list.find(predicate): the first element the predicate holds for, or
\* undefined.
FindFalsy(list) ==
    IF \E i \in 1..Len(list) : ~Truthy(list[i])
    THEN list[CHOOSE i \in 1..Len(list) :
                 ~Truthy(list[i]) /\ \A j \in 1..(i - 1) : Truthy(list[j])]
    ELSE JUndefined

\* a || b
OrElse(a, b) == IF Truthy(a) THEN a ELSE b

\* The refinement of addConstraintToSchema.
FhirPathConstraint(constraint) == [name |-> "FhirPath", constraint |-> constraint]
\* The refinement createRefinementForSlices returns for a fixed or pattern
\* value of an element without slices.
ExactValue(fieldName, requiredValue) ==
    [name |-> "ExactValue", fieldName |-> fieldName, requiredValue |-> requiredValue]
\* The refinement createRefinementForSlices returns for a sliced element;
\* sliceSchemas[i] is createSchema(slices[i]).
SlicingRefinement(intermediate, sliceSchemas) ==
    [name |-> "Slicing", intermediate |-> intermediate, sliceSchemas |-> sliceSchemas]

\* fieldAtPath: the descendant of the slice at the path, or <<>>.
RECURSIVE fieldAtPath(_, _, _)
fieldAtPath(element, path, i) ==
    IF i > Len(path) THEN <<element>>
    ELSE LET found == SelectSeq(element.children, LAMBDA child : child.fieldName = path[i])
         IN IF found = <<>> THEN <<>> ELSE fieldAtPath(found[1], path, i + 1)

\* One discriminator of createSliceMatcher: does the first value at the
\* discriminator's path equal the pattern or fixed value of the slice's field.
discriminatorMatches(intermediate, slice, disc, data) ==
    LET sliceField == fieldAtPath(slice, disc.path, 1)
        evaluatedPath == SubSeq(intermediate.path, 2, Len(intermediate.path)) \o disc.path
        values == evaluatePath(<<data>>, evaluatedPath, 1)
        expected == IF sliceField = <<>> THEN JUndefined
                    ELSE OrElse(sliceField[1].pattern, sliceField[1].fixed)
    IN /\ disc.type \in {"value", "pattern"}
       /\ StrictEquals(First(values), expected)

\* createSliceMatcher: the index of the first slice all of whose
\* discriminators match, or 0.
sliceMatcher(intermediate, data) ==
    LET slices == intermediate.slicing[1].slices
        discriminator == intermediate.slicing[1].discriminator
        matches(k) == \A d \in 1..Len(discriminator) :
                          discriminatorMatches(intermediate, slices[k], discriminator[d], data)
    IN IF \E k \in 1..Len(slices) : matches(k)
       THEN CHOOSE k \in 1..Len(slices) : matches(k) /\ \A j \in 1..(k - 1) : ~matches(j)
       ELSE 0

RECURSIVE zodParse(_, _, _)

\* Does the refinement call ctx.addIssue for the data.
Issues(refinement, data, path) ==
    CASE refinement.name = "MustHaveAtMostOneFieldStartingWith" ->
            Cardinality({key \in ObjectKeys(data) : startsWith(key, refinement.prefix)}) > 1
      [] refinement.name = "ObjectMustNotBeEmpty" ->
            /\ ~LastSegmentIsIndex(path)
            /\ data.t \in {"object", "array"} /\ ObjectKeys(data) = {}
      [] refinement.name = "FhirPath" ->
            \* result.length > 0 && result.find((r) => !!!r), inside try / catch
            LET evaluated == fhirpathEvaluate(data, refinement.constraint.expression)
            IN /\ ~evaluated.thrown
               /\ Len(evaluated.result) > 0
               /\ Truthy(FindFalsy(evaluated.result))
      [] refinement.name = "ExactValue" ->
            ~StrictEquals(First(evaluatePath(<<data>>, <<refinement.fieldName>>, 1)),
                          refinement.requiredValue)
      [] refinement.name = "Slicing" ->
            LET k == sliceMatcher(refinement.intermediate, data)
            IN /\ k > 0
               /\ LET slice == refinement.intermediate.slicing[1].slices[k]
                      evaluatedPath == IF Len(slice.path) > 1
                                       THEN SubSeq(slice.path, 2, Len(slice.path))
                                       ELSE slice.path
                      dataSection == evaluatePath(<<data>>, evaluatedPath, 1)
                  IN CASE Len(dataSection) = 0 -> slice.min > 0
                       [] Len(dataSection) = 1 ->
                            ~zodParse(refinement.sliceSchemas[k], dataSection[1], <<>>).success
                       [] OTHER -> FALSE
      [] OTHER -> ObjectKeys(data) = {}

RECURSIVE mergeValues(_, _)
\* mergeValues of ZodIntersection: both sides parsed the same input and no
\* schema of the model transforms it, so the values differ in the unknown
\* keys stripped only, and the merge is always valid.
mergeValues(a, b) ==
    IF a.t = "object" /\ b.t = "object"
    THEN JObject([key \in DOMAIN a.o \cup DOMAIN b.o |->
                     IF key \in DOMAIN a.o /\ key \in DOMAIN b.o
                     THEN mergeValues(a.o[key], b.o[key])
                     ELSE IF key \in DOMAIN b.o THEN b.o[key] ELSE a.o[key]])
    ELSE IF a.t = "array" /\ b.t = "array" /\ Len(a.a) = Len(b.a)
    THEN JArray([i \in 1..Len(a.a) |-> mergeValues(a.a[i], b.a[i])])
    ELSE a

\* schema._parse: [success, data], data the parsed output. An object schema
\* strips the keys its shape does not know; a refinement runs on the output
\* of the schema it wraps, and only if that schema did not fail.
zodParse(schema, data, path) ==
    CASE schema.kind = "any" -> [success |-> TRUE, data |-> data]
      [] schema.kind = "boolean" -> [success |-> data.t = "boolean", data |-> data]
      [] schema.kind = "string" ->
            [success |-> data.t = "string" /\ Matches(schema.regex, data.s), data |-> data]
      [] schema.kind = "enum" ->
            [success |-> data.t = "string" /\ data.s \in schema.values, data |-> data]
      [] schema.kind = "optional" ->
            IF data.t = "undefined" THEN [success |-> TRUE, data |-> data]
            ELSE zodParse(schema.inner, data, path)
      [] schema.kind = "array" ->
            IF data.t # "array" THEN [success |-> FALSE, data |-> data]
            ELSE LET items == [i \in 1..Len(data.a) |->
                                  zodParse(schema.element, data.a[i],
                                           Append(path, IndexSegment(i - 1)))]
                 IN [success |-> /\ \A i \in 1..Len(items) : items[i].success
                                 /\ Len(items) >= schema.min /\ Len(items) <= schema.max,
                     data |-> JArray([i \in 1..Len(items) |-> items[i].data])]
      [] schema.kind = "object" ->
            IF data.t # "object" THEN [success |-> FALSE, data |-> data]
            ELSE LET fields == [key \in DOMAIN schema.shape |->
                                   zodParse(schema.shape[key],
                                            IF key \in DOMAIN data.o THEN data.o[key]
                                            ELSE JUndefined,
                                            Append(path, KeySegment(key)))]
                     kept == {key \in DOMAIN schema.shape :
                                 key \in DOMAIN data.o \/ fields[key].data.t # "undefined"}
                 IN [success |-> \A key \in DOMAIN schema.shape : fields[key].success,
                     data |-> JObject([key \in kept |-> fields[key].data])]
      [] schema.kind = "and" ->
            LET left == zodParse(schema.left, data, path)
                right == zodParse(schema.right, data, path)
            IN [success |-> left.success /\ right.success,
                data |-> mergeValues(left.data, right.data)]
      [] schema.kind = "or" ->
            LET left == zodParse(schema.left, data, path)
            IN IF left.success THEN left ELSE zodParse(schema.right, data, path)
      [] schema.kind = "effects" ->
            LET inner == zodParse(schema.inner, data, path)
            IN IF ~inner.success THEN inner
               ELSE [success |-> ~Issues(schema.refinement, inner.data, path),
                     data |-> inner.data]

\* schema.safeParse(data).success
safeParse(schema, data) == zodParse(schema, data, <<>>).success

-----------------------------------------------------------------------------
(* The built-in schemas the definitions of the model refer to: types/ *)

SimpleTypeSchemas ==
    [string |-> ZodString(""), boolean |-> ZodBoolean,
     code |-> ZodString("code"), uri |-> ZodString("uri")]

ElementSchema ==
    ZodObject((FieldName("id") :> ZodOptional(SimpleTypeSchemas.string))
              @@ (FieldName("extension") :> ZodOptional(ZodArray(ZodAny, 0, MAX_CARDINALITY))))

CodingSchema ==
    ZodAnd(ElementSchema,
           ZodObject((FieldName("system") :> ZodOptional(SimpleTypeSchemas.uri))
                     @@ (FieldName("version") :> ZodOptional(SimpleTypeSchemas.string))
                     @@ (FieldName("code") :> ZodOptional(SimpleTypeSchemas.code))
                     @@ (FieldName("display") :> ZodOptional(SimpleTypeSchemas.string))
                     @@ (FieldName("userSelected") :> ZodOptional(SimpleTypeSchemas.boolean))))

CodeableConceptSchema ==
    ZodAnd(ElementSchema,
           ZodObject((FieldName("coding") :> ZodOptional(ZodArray(CodingSchema, 0, MAX_CARDINALITY)))
                     @@ (FieldName("text") :> ZodOptional(SimpleTypeSchemas.string))))

\* A cut of Identifier: system and value.
IdentifierSchema ==
    ZodAnd(ElementSchema,
           ZodObject((FieldName("system") :> ZodOptional(SimpleTypeSchemas.uri))
                     @@ (FieldName("value") :> ZodOptional(SimpleTypeSchemas.string))))

\* A cut of HumanName: family and given.
HumanNameSchema ==
    ZodAnd(ElementSchema,
           ZodObject((FieldName("family") :> ZodOptional(SimpleTypeSchemas.string))
                     @@ (FieldName("given") :>
                            ZodOptional(ZodArray(SimpleTypeSchemas.string, 0, MAX_CARDINALITY)))))

\* Every complex type gets schema.superRefine(ObjectMustNotBeEmpty).
ComplexTypeSchemas ==
    [Element |-> ZodEffects(ElementSchema, ObjectMustNotBeEmpty),
     Coding |-> ZodEffects(CodingSchema, ObjectMustNotBeEmpty),
     CodeableConcept |-> ZodEffects(CodeableConceptSchema, ObjectMustNotBeEmpty),
     HumanName |-> ZodEffects(HumanNameSchema, ObjectMustNotBeEmpty),
     Identifier |-> ZodEffects(IdentifierSchema, ObjectMustNotBeEmpty)]

Schemas == SimpleTypeSchemas @@ ComplexTypeSchemas

-----------------------------------------------------------------------------
(* StructureDefinitions as documents: a snapshot of elements, converted to
   the intermediate format and from there to a schema.  An element id is
   the list of its segments, a segment the list of the parts of its name:
   <<"text">>, <<"dose", "[x]">>, <<"identifier", ":PIC">> for the slice PIC
   of identifier.  The elements of the model have no condition. *)

StructureDefinitionUrlPrefix == "http://hl7.org/fhir/StructureDefinition/"

\* `http://hl7.org/fhir/StructureDefinition/${name}`, on the names of the model.
StructureDefinitionUrl(name) ==
    CASE name = "Dosage" -> "http://hl7.org/fhir/StructureDefinition/Dosage"
      [] name = "MedicationRequest" -> "http://hl7.org/fhir/StructureDefinition/MedicationRequest"
      [] name = "BackboneElement" -> "http://hl7.org/fhir/StructureDefinition/BackboneElement"
      [] name = "DomainResource" -> "http://hl7.org/fhir/StructureDefinition/DomainResource"
      [] name = "DataType" -> "http://hl7.org/fhir/StructureDefinition/DataType"
      [] name = "Element" -> "http://hl7.org/fhir/StructureDefinition/Element"
      [] name = "Patient" -> "http://hl7.org/fhir/StructureDefinition/Patient"
      [] name = "Extension" -> "http://hl7.org/fhir/StructureDefinition/Extension"
      [] OTHER -> StructureDefinitionUrlPrefix

\* baseType.match(/^https?:\/\//m)
IsHttpUrl(name) ==
    name \in {StructureDefinitionUrl(n) :
                 n \in {"Dosage", "MedicationRequest", "BackboneElement", "DomainResource",
                        "DataType", "Element", "Patient", "Extension", ""}}

\* An ElementDefinition of a snapshot: path is the list of the field names
\* of element.path, max is "1" or "*", type the list of type codes. fixed
\* and pattern stand for the fixed[x] and pattern[x] keys of the element
\* (undefined if it has none), slicing is <<>> or holds the one slicing.
ElementDefinition(path, min, max, type) ==
    [id |-> path, path |-> path, sliceName |-> "", min |-> min, max |-> max, type |-> type,
     fixed |-> JUndefined, pattern |-> JUndefined, constraint |-> <<>>, slicing |-> <<>>]

\* The names of the slices of the model and the ":name" they end an id with.
SliceNames == {"PIC", "MRN"}
SliceSuffix(sliceName) ==
    CASE sliceName = "PIC" -> ":PIC"
      [] sliceName = "MRN" -> ":MRN"
      [] OTHER -> ":"

\* The element that introduces the slice sliceName of the element at path.
SliceIntroducer(path, sliceName, min, max, type) ==
    [ElementDefinition(path, min, max, type) EXCEPT
        !.id = SubSeq(path, 1, Len(path) - 1)
                  \o <<path[Len(path)] \o <<SliceSuffix(sliceName)>>>>,
        !.sliceName = sliceName]

\* element.slicing = {discriminator, rules}
Slicing(discriminator, rules) == <<[discriminator |-> discriminator, rules |-> rules]>>

\* An ElementDefinitionConstraint.
Constraint(key, severity, source, expression) ==
    [key |-> key, severity |-> severity, source |-> source, expression |-> expression]

\* A cut of the R4 Dosage: a text, the choice asNeeded[x], and the element
\* doseAndRate with the choice dose[x] of its own.
DosageDefinition ==
    [resourceType |-> "StructureDefinition",
     url |-> StructureDefinitionUrl("Dosage"),
     name |-> "Dosage", type |-> "Dosage", kind |-> "complex-type",
     baseDefinition |-> StructureDefinitionUrl("BackboneElement"),
     snapshot |-> [element |-> <<
        ElementDefinition(<<FieldName("Dosage")>>, 0, "*", <<>>),
        ElementDefinition(<<FieldName("Dosage"), FieldName("text")>>, 0, "1", <<"string">>),
        ElementDefinition(<<FieldName("Dosage"), <<"asNeeded", "[x]">>>>, 0, "1",
                          <<"boolean", "CodeableConcept">>),
        ElementDefinition(<<FieldName("Dosage"), FieldName("doseAndRate")>>, 0, "*",
                          <<"Element">>),
        ElementDefinition(<<FieldName("Dosage"), FieldName("doseAndRate"), <<"dose", "[x]">>>>,
                          0, "1", <<"Range", "Quantity">>) >>]]

\* A cut of the R4 MedicationRequest: its status and its dosage instructions.
MedicationRequestDefinition ==
    [resourceType |-> "StructureDefinition",
     url |-> StructureDefinitionUrl("MedicationRequest"),
     name |-> "MedicationRequest", type |-> "MedicationRequest", kind |-> "resource",
     baseDefinition |-> StructureDefinitionUrl("DomainResource"),
     snapshot |-> [element |-> <<
        ElementDefinition(<<FieldName("MedicationRequest")>>, 0, "*", <<>>),
        ElementDefinition(<<FieldName("MedicationRequest"), FieldName("status")>>, 1, "1",
                          <<"code">>),
        ElementDefinition(<<FieldName("MedicationRequest"), FieldName("dosageInstruction")>>,
                          0, "*", <<"Dosage">>) >>]]

\* The constraints of Patient.name in the model: a name has a family name,
\* and a constraint whose expression FHIRPath cannot parse.
NameHasFamily ==
    Constraint("pat-1", "error", StructureDefinitionUrl("Patient"),
               FhirPathExpression("exists", <<FieldName("family")>>))
NameUnparsable ==
    Constraint("pat-2", "error", StructureDefinitionUrl("Patient"),
               FhirPathExpression("invalid", <<>>))

\* A profile of Patient: gender is optional and fixed to "female", every
\* name carries the two constraints, and identifier is sliced by the value
\* of system into PIC (1..1, system "urn:pic") and MRN (0..1, system
\* "urn:mrn").
PatientDefinition ==
    [resourceType |-> "StructureDefinition",
     url |-> StructureDefinitionUrl("Patient"),
     name |-> "Patient", type |-> "Patient", kind |-> "resource",
     baseDefinition |-> StructureDefinitionUrl("DomainResource"),
     snapshot |-> [element |-> <<
        ElementDefinition(<<FieldName("Patient")>>, 0, "*", <<>>),
        [ElementDefinition(<<FieldName("Patient"), FieldName("gender")>>, 0, "1", <<"code">>)
            EXCEPT !.fixed = JString("female")],
        [ElementDefinition(<<FieldName("Patient"), FieldName("name")>>, 0, "*", <<"HumanName">>)
            EXCEPT !.constraint = <<NameHasFamily, NameUnparsable>>],
        [ElementDefinition(<<FieldName("Patient"), FieldName("identifier")>>, 0, "*",
                           <<"Identifier">>)
            EXCEPT !.slicing = Slicing(<<[type |-> "value", path |-> <<FieldName("system")>>]>>,
                                       "open")],
        ElementDefinition(<<FieldName("Patient"), FieldName("identifier"), FieldName("system")>>,
                          0, "1", <<"uri">>),
        SliceIntroducer(<<FieldName("Patient"), FieldName("identifier")>>, "PIC", 1, "1",
                        <<"Identifier">>),
        [ElementDefinition(<<FieldName("Patient"), FieldName("identifier"), FieldName("system")>>,
                           1, "1", <<"uri">>)
            EXCEPT !.id = <<FieldName("Patient"), <<"identifier", SliceSuffix("PIC")>>,
                            FieldName("system")>>,
                   !.fixed = JString("urn:pic")],
        SliceIntroducer(<<FieldName("Patient"), FieldName("identifier")>>, "MRN", 0, "1",
                        <<"Identifier">>),
        [ElementDefinition(<<FieldName("Patient"), FieldName("identifier"), FieldName("system")>>,
                           1, "1", <<"uri">>)
            EXCEPT !.id = <<FieldName("Patient"), <<"identifier", SliceSuffix("MRN")>>,
                            FieldName("system")>>,
                   !.fixed = JString("urn:mrn")] >>]]

StructureDefinitions == {DosageDefinition, MedicationRequestDefinition, PatientDefinition}

\* The definition of a type of the model.
DefinitionOf(type) == CHOOSE sd \in StructureDefinitions : sd.type = type

\* collectElementConstraints: the constraints of severity "error" that do
\* not come from the definition of Element.
collectElementConstraints(element) ==
    SelectSeq(element.constraint,
              LAMBDA c : c.severity = "error" /\ c.source # StructureDefinitionUrl("Element"))

\* convertElement: the IntermediateStructureElement of an ElementDefinition.
convertElementDefinition(element) ==
    [id |-> element.id,
     path |-> element.path,
     sliceName |-> element.sliceName,
     fieldName |-> element.path[Len(element.path)],
     min |-> element.min,
     max |-> IF element.max = "*" THEN MAX_CARDINALITY ELSE 1,
     type |-> IF Len(element.type) = 1 THEN element.type[1] ELSE "choice-of-type",
     types |-> element.type,
     pattern |-> element.pattern,
     fixed |-> element.fixed,
     constraint |-> collectElementConstraints(element),
     children |-> <<>>,
     slicing |-> IF element.slicing = <<>> THEN <<>>
                 ELSE <<[discriminator |-> element.slicing[1].discriminator,
                         rules |-> element.slicing[1].rules,
                         slices |-> <<>>]>>]

\* The IntermediateStructureSlice convertChildElement pushes for a slice
\* introducer: no pattern, no fixed value, no constraint, no slicing.
convertSlice(element) ==
    [convertElementDefinition(element) EXCEPT
        !.pattern = JUndefined, !.fixed = JUndefined, !.constraint = <<>>, !.slicing = <<>>]

RECURSIVE findElementById(_, _)
\* Is there an element with that id or path in the tree: the element itself,
\* then its children, then its slices.
findElementById(root, parentId) ==
    \/ root.id = parentId
    \/ root.path = parentId
    \/ \E i \in 1..Len(root.children) : findElementById(root.children[i], parentId)
    \/ /\ root.slicing # <<>>
       /\ \E i \in 1..Len(root.slicing[1].slices) :
             findElementById(root.slicing[1].slices[i], parentId)

\* element.id?.match(/:[^.:]+$/)
endsWithSliceName(id) ==
    /\ id # <<>>
    /\ LET segment == id[Len(id)]
       IN segment[Len(segment)] \in {SliceSuffix(sliceName) : sliceName \in SliceNames}

\* parentIdOf: the id without its trailing ":name" for a slice introducer,
\* else (element.id || element.path).split(".").slice(0, -1).join(".")
parentIdOf(element) ==
    IF element.sliceName # "" /\ endsWithSliceName(element.id)
    THEN LET segment == element.id[Len(element.id)]
         IN SubSeq(element.id, 1, Len(element.id) - 1)
               \o <<SubSeq(segment, 1, Len(segment) - 1)>>
    ELSE SubSeq(element.id, 1, Len(element.id) - 1)

\* The first index of the list whose element holds the id, or 0.
FirstHolding(list, parentId) ==
    IF \E i \in 1..Len(list) : findElementById(list[i], parentId)
    THEN CHOOSE i \in 1..Len(list) :
            /\ findElementById(list[i], parentId)
            /\ \A j \in 1..(i - 1) : ~findElementById(list[j], parentId)
    ELSE 0

\* convertChildElement without its slice branch: every element goes to
\* parent.__children.
contributeToChildrenOnly(parent, element) ==
    [parent EXCEPT !.children = Append(@, convertElementDefinition(element))]

\* What convertChildElement does to the parent it found: a slice introducer
\* goes to parent.slicing.slices, or nowhere if the parent has no slicing
\* (console.warn); every other element goes to parent.__children.
contributeTo(parent, element) ==
    IF convertElementDefinition(element).sliceName # ""
    THEN IF parent.slicing # <<>>
         THEN [parent EXCEPT !.slicing[1].slices = Append(@, convertSlice(element))]
         ELSE parent
    ELSE [parent EXCEPT !.children = Append(@, convertElementDefinition(element))]

RECURSIVE pushChild(_, _, _)
\* The tree after convertChildElement, parent the element findElementById
\* returns for the id: the first one in the order of its search.
pushChild(root, parentId, element) ==
    IF root.id = parentId \/ root.path = parentId THEN contributeTo(root, element)
    ELSE LET c == FirstHolding(root.children, parentId)
         IN IF c > 0
            THEN [root EXCEPT !.children[c] = pushChild(@, parentId, element)]
            ELSE LET k == FirstHolding(root.slicing[1].slices, parentId)
                 IN [root EXCEPT !.slicing[1].slices[k] = pushChild(@, parentId, element)]

\* What a function that throws leaves in place of its result.
Thrown == [thrown |-> TRUE]

RECURSIVE convertChildElements(_, _, _)
\* elements.filter(e => e !== rootElement).forEach(convertChildElement), from
\* element i on: the root with the children in place, or Thrown if an
\* element has no parent in the tree.
convertChildElements(root, elements, i) ==
    IF i > Len(elements) THEN root
    ELSE LET parentId == parentIdOf(convertElementDefinition(elements[i]))
         IN IF ~findElementById(root, parentId) THEN Thrown
            ELSE convertChildElements(pushChild(root, parentId, elements[i]),
                                      elements, i + 1)

convertStructureDefinitionToIntermediateFormat(sd) ==
    LET elements == sd.snapshot.element
        isRoot(e) == e.id = <<FieldName(sd.type)>>
    IN IF ~\E i \in 1..Len(elements) : isRoot(elements[i]) THEN Thrown
       ELSE LET rootElement == elements[CHOOSE i \in 1..Len(elements) :
                                   isRoot(elements[i]) /\ \A j \in 1..(i - 1) : ~isRoot(elements[j])]
                root == convertElementDefinition([rootElement EXCEPT !.type = <<sd.type>>])
                structure == convertChildElements(root, SelectSeq(elements, LAMBDA e : e # rootElement), 1)
            IN IF structure = Thrown THEN Thrown
               ELSE [resourceType |-> "StructureDefinition", kind |-> "resource",
                     type |-> sd.type, url |-> sd.url,
                     baseDefinition |-> sd.baseDefinition, structure |-> structure]

\* resolveSchema of the compile loop, on the schemas stored so far.
resolveSchemaIn(stored, nameOrUrl) ==
    IF nameOrUrl \in DOMAIN stored THEN stored[nameOrUrl]
    ELSE IF StructureDefinitionUrl(nameOrUrl) \in DOMAIN stored
         THEN stored[StructureDefinitionUrl(nameOrUrl)]
         ELSE NoZodSchema

\* schema || z.any()
OrAny(schema) == IF schema.kind = "undefined" THEN ZodAny ELSE schema

\* applyCardinality of convertToSchema.
applyCardinalityTo(itemTypeSchema, min, max) ==
    LET schema == IF max > 1 THEN ZodArray(itemTypeSchema, min, max) ELSE itemTypeSchema
    IN IF min = 0 THEN ZodOptional(schema) ELSE schema

resolveBaseType(baseType, stored) ==
    IF baseType = "boolean" THEN ZodOr(ZodBoolean, ZodEnumOf({"true", "false"}))
    ELSE IF baseType = "choice-of-type" THEN NoZodSchema
    ELSE LET first == resolveSchemaIn(stored, baseType)
             second == IF first.kind = "undefined" /\ ~IsHttpUrl(baseType)
                       THEN resolveSchemaIn(stored, StructureDefinitionUrl(baseType))
                       ELSE first
         IN IF second.kind = "undefined" /\ baseType \in DOMAIN Schemas THEN Schemas[baseType]
            ELSE second

RECURSIVE superRefineAll(_, _, _)
\* refinements.reduce((acc, refinement) => acc.superRefine(refinement), schema)
superRefineAll(acc, refinements, i) ==
    IF i > Len(refinements) THEN acc
    ELSE superRefineAll(ZodEffects(acc, refinements[i]), refinements, i + 1)

applyRefinementsToSchema(schema, refinements) ==
    ZodAnd(schema, superRefineAll(schema, refinements, 1))

RECURSIVE createSchema(_, _, _), createShape(_, _), createShapeFrom(_, _, _, _),
          addChildSchema(_, _), childrenShape(_, _, _, _), addVariants(_, _, _, _, _),
          createRefinementForSlices(_, _)

\* createRefinementForSlices: no refinement (<<>>) or one. A sliced element
\* with discriminators of type value or pattern gets the slicing refinement,
\* an element without slices that has a pattern or fixed value the
\* exact-value one. The schema of a slice is built when the refinement runs;
\* the slices of the model have children of built-in types only, which
\* resolve alike then and now.
createRefinementForSlices(intermediate, stored) ==
    IF intermediate.slicing # <<>> /\ Len(intermediate.slicing[1].slices) > 0
    THEN LET slices == intermediate.slicing[1].slices
             discriminator == intermediate.slicing[1].discriminator
         IN IF \E d \in 1..Len(discriminator) : discriminator[d].type \notin {"value", "pattern"}
            THEN <<>>
            ELSE <<SlicingRefinement(intermediate,
                       [k \in 1..Len(slices) |-> createSchema(slices[k], "", stored)])>>
    ELSE LET requiredValue == OrElse(intermediate.pattern, intermediate.fixed)
         IN IF Truthy(requiredValue)
            THEN <<ExactValue(intermediate.fieldName, requiredValue)>>
            ELSE <<>>

\* child.constraint.forEach(c => schema = addConstraintToSchema(schema, c))
RECURSIVE addConstraintsToSchema(_, _, _)
addConstraintsToSchema(schema, constraints, i) ==
    IF i > Len(constraints) THEN schema
    ELSE addConstraintsToSchema(ZodEffects(schema, FhirPathConstraint(constraints[i])),
                                constraints, i + 1)

\* addChild of createShape: the schema stored as shape[child.fieldName].
addChildSchema(child, stored) ==
    LET resolved == OrAny(resolveSchemaIn(stored, child.type))
        schema == addConstraintsToSchema(resolved, child.constraint, 1)
        withChildren ==
            IF Len(child.children) > 0
            THEN ZodAnd(schema, ZodObject(childrenShape(child.children, 1, stored, <<>>)))
            ELSE schema
    IN applyCardinalityTo(withChildren, child.min, child.max)

\* child.__children.forEach(child => childrenShape[child.fieldName] =
\* createSchema(child, ...)), from child i on.
childrenShape(children, i, stored, shape) ==
    IF i > Len(children) THEN shape
    ELSE childrenShape(children, i + 1, stored,
                       (children[i].fieldName :> createSchema(children[i], "", stored)) @@ shape)

\* child.types.forEach(variantType => { addChild({...child, fieldName, type:
\* variantType, types: [], min: 0, max: 1}); refinement of child }), from
\* type j on: addChild pushes the refinement of the variant, the loop body
\* the one of the child.
addVariants(child, commonPrefix, j, stored, acc) ==
    IF j > Len(child.types) THEN acc
    ELSE LET variantFieldName == commonPrefix \o <<capitalizeFirstLetter(child.types[j])>>
             variant == [child EXCEPT !.fieldName = variantFieldName,
                                      !.type = child.types[j],
                                      !.types = <<>>, !.min = 0, !.max = 1]
         IN addVariants(child, commonPrefix, j + 1, stored,
                        [shape |-> (variantFieldName :> addChildSchema(variant, stored))
                                      @@ acc.shape,
                         refinements |-> acc.refinements
                                            \o createRefinementForSlices(variant, stored)
                                            \o createRefinementForSlices(child, stored)])

\* intermediate.__children.forEach(...) of createShape, from child i on:
\* [shape, refinements]. The refinement of a child is pushed twice, by
\* addChild and by the loop body.
createShapeFrom(children, i, stored, acc) ==
    IF i > Len(children) THEN acc
    ELSE LET child == children[i]
         IN IF endsWithX(child.fieldName)
            THEN LET commonPrefix == SubSeq(child.fieldName, 1, Len(child.fieldName) - 1)
                     variants == addVariants(child, commonPrefix, 1, stored, acc)
                 IN createShapeFrom(children, i + 1, stored,
                        [variants EXCEPT !.refinements =
                            Append(@, MustHaveAtMostOneFieldStartingWith(commonPrefix))])
            ELSE createShapeFrom(children, i + 1, stored,
                        [shape |-> (child.fieldName :> addChildSchema(child, stored))
                                      @@ acc.shape,
                         refinements |-> acc.refinements
                                            \o createRefinementForSlices(child, stored)
                                            \o createRefinementForSlices(child, stored)])

\* createShape: the children, then the slicing of the element itself unless
\* it is a slice with constraints or a minimum (console.warn only).
createShape(intermediate, stored) ==
    LET acc == createShapeFrom(intermediate.children, 1, stored,
                               [shape |-> <<>>, refinements |-> <<>>])
    IN IF intermediate.sliceName # ""
          /\ (Len(intermediate.constraint) > 0 \/ intermediate.min > 0)
       THEN acc
       ELSE IF intermediate.slicing # <<>> /\ Len(intermediate.slicing[1].slices) > 0
            THEN [acc EXCEPT !.refinements = @ \o createRefinementForSlices(intermediate, stored)]
            ELSE acc

createSchema(intermediate, baseType, stored) ==
    LET resolved == resolveBaseType(IF baseType # "" THEN baseType ELSE intermediate.type,
                                    stored)
        sr == createShape(intermediate, stored)
        schema ==
            IF DOMAIN sr.shape # {}
            THEN applyRefinementsToSchema(ZodObject(sr.shape), sr.refinements)
            ELSE IF Len(sr.refinements) > 0
                 THEN applyRefinementsToSchema(OrAny(resolved), sr.refinements)
                 ELSE OrAny(resolved)
    IN applyCardinalityTo(schema, intermediate.min, intermediate.max)

\* convertToSchema: the schema of the root with cardinality 1..1; the kind of
\* the intermediate format is "resource" for every definition.
convertToZodSchema(imf, stored) ==
    LET schema == createSchema([imf.structure EXCEPT !.min = 1, !.max = 1],
                               imf.baseDefinition, stored)
    IN IF imf.kind = "resource"
       THEN ZodAnd(schema, ZodObject(FieldName("resourceType") :>
                                        ZodOptional(SimpleTypeSchemas.string)))
       ELSE schema

\* buildSchemaForComplexType: the converted schema with the refinement
\* "Object must have some content", or z.any().optional() if the conversion
\* throws.
buildZodSchemaForComplexType(sd, stored) ==
    LET imf == convertStructureDefinitionToIntermediateFormat(sd)
    IN IF imf = Thrown THEN ZodOptional(ZodAny)
       ELSE ZodEffects(convertToZodSchema(imf, stored), ObjectMustHaveSomeContent)

\* assignSchemaForResourceFile: the schema goes under the URL of the file,
\* and under its name too for a complex type derived from DataType.
assignZodSchemaForResourceFile(stored, sd, schema) ==
    LET underUrl == (sd.url :> schema) @@ stored
    IN IF /\ sd.resourceType = "StructureDefinition" /\ sd.kind = "complex-type"
          /\ sd.baseDefinition = StructureDefinitionUrl("DataType")
       THEN (sd.name :> schema) @@ underUrl
       ELSE underUrl

-----------------------------------------------------------------------------
(* Specification SpecDocuments: StructureDefinitions are compiled one by one,
   then documents are parsed with the validators stored for them *)

\* The longest array of {} among the documents.
MaxItems == 2

\* The value or no value at all.
Maybe(values) == values \cup {JUndefined}

\* The object with the fields <<name, value>> of the list whose value is not
\* undefined.
ObjectOf(pairs) ==
    LET present == {i \in 1..Len(pairs) : pairs[i][2].t # "undefined"}
    IN JObject([key \in {pairs[i][1] : i \in present} |->
                   pairs[CHOOSE i \in present : pairs[i][1] = key][2]])

QuantityValue == JObject(FieldName("unit") :> JString("mg"))
RangeValue == JObject(FieldName("low") :> QuantityValue)

\* The elements of Dosage.doseAndRate: {} among them.
DoseAndRateItems ==
    {ObjectOf(<< <<FieldName("id"), id>>, <<<<"dose", "Range">>, range>>,
                 <<<<"dose", "Quantity">>, quantity>> >>) :
        id \in Maybe({JString("a")}), range \in Maybe({RangeValue}),
        quantity \in Maybe({QuantityValue})}

\* Documents for the Dosage validator: {} and a document with an unknown
\* field only among them.
DosageDocuments ==
    {ObjectOf(<< <<FieldName("text"), text>>,
                 <<<<"asNeeded", "Boolean">>, asNeededBoolean>>,
                 <<<<"asNeeded", "CodeableConcept">>, asNeededCodeableConcept>>,
                 <<FieldName("doseAndRate"), doseAndRate>>,
                 <<FieldName("comment"), unknown>> >>) :
        text \in Maybe({JString("a")}),
        asNeededBoolean \in Maybe({JBoolean(TRUE)}),
        asNeededCodeableConcept \in
            Maybe({EmptyObject, JObject(FieldName("text") :> JString("a"))}),
        doseAndRate \in Maybe({JArray(<<>>)} \cup {JArray(<<item>>) : item \in DoseAndRateItems}),
        unknown \in Maybe({JString("a")})}

\* Documents for the MedicationRequest validator.
MedicationRequestDocuments ==
    {ObjectOf(<< <<FieldName("status"), status>>,
                 <<FieldName("dosageInstruction"), dosageInstruction>> >>) :
        status \in Maybe({JString("active"), JString(" ")}),
        dosageInstruction \in
            Maybe({JArray(<<>>)}
                  \cup {JArray([i \in 1..n |-> EmptyObject]) : n \in 2..MaxItems}
                  \cup {JArray(<<dosage>>) : dosage \in DosageDocuments})}

\* The Identifier with that system.
IdentifierOf(system) == JObject(FieldName("system") :> JString(system))

\* Documents for the Patient validator: with and without a gender, names
\* with and without a family name, identifiers of the slices and of none.
PatientDocuments ==
    {ObjectOf(<< <<FieldName("gender"), gender>>,
                 <<FieldName("name"), name>>,
                 <<FieldName("identifier"), identifier>> >>) :
        gender \in Maybe({JString("female"), JString("male")}),
        name \in Maybe({JArray(<<JObject(FieldName("family") :> JString("a"))>>),
                        JArray(<<JObject(FieldName("given") :> JArray(<<JString("b")>>))>>)}),
        identifier \in
            Maybe({JArray(<<>>)}
                  \cup {JArray(<<IdentifierOf(system)>>) : system \in {"urn:pic", "urn:mrn", "urn:x"}}
                  \cup {JArray(<<IdentifierOf("urn:x"), IdentifierOf("urn:pic")>>),
                        JArray(<<IdentifierOf("urn:pic"), IdentifierOf("urn:mrn")>>)})}

Documents == DosageDocuments \cup MedicationRequestDocuments \cup PatientDocuments

\* results = {...Schemas}: the built-in schemas, no definition compiled yet.
InitDocuments ==
    /\ zodSchemas = Schemas /\ compiledDefs = <<>> /\ parsed = NoParse
    /\ SortIdle /\ DedupeIdle /\ CompileIdle /\ ValidatorsIdle /\ FacadeIdle
    /\ HierarchyIdle /\ IntermediateIdle /\ OthersIdle

\* processResource of the StructureDefinition generator for a complex type
\* or a resource: the schema is built against the schemas stored so far and
\* contributed.
CompileDefinition(sd) ==
    /\ parsed = NoParse
    /\ sd.type \notin Range(compiledDefs)
    /\ zodSchemas' = assignZodSchemaForResourceFile(zodSchemas, sd,
                         buildZodSchemaForComplexType(sd, zodSchemas))
    /\ compiledDefs' = Append(compiledDefs, sd.type)
    /\ UNCHANGED parsed
    /\ UNCHANGED <<sortVars, dedupeVars, compileVars, validatorVars, facadeVars, hierarchyVars, intermediateVars, kindVars, dependencyVars, promiseVars, loaderVars>>

\* schema.safeParseAsync(resource), schema the validator stored for the
\* profile.
SafeParseDocument(type, document) ==
    /\ parsed = NoParse
    /\ type \in Range(compiledDefs)
    /\ parsed' = [type |-> type, input |-> document,
                  success |-> safeParse(zodSchemas[StructureDefinitionUrl(type)], document)]
    /\ UNCHANGED <<zodSchemas, compiledDefs>>
    /\ UNCHANGED <<sortVars, dedupeVars, compileVars, validatorVars, facadeVars, hierarchyVars, intermediateVars, kindVars, dependencyVars, promiseVars, loaderVars>>

NextDocuments ==
    \/ \E sd \in StructureDefinitions : CompileDefinition(sd)
    \/ /\ parsed = NoParse
       /\ \E type \in Range(compiledDefs), document \in Documents :
             SafeParseDocument(type, document)

SpecDocuments == InitDocuments /\ [][NextDocuments]_vars

\* The element tree of the definition the last document was parsed for.
ParsedStructure == convertStructureDefinitionToIntermediateFormat(DefinitionOf(parsed.type)).structure

\* The field names of the choice group of a [x] element that the object carries.
ChoiceFieldsCarried(child, data) ==
    {variantType \in Range(child.types) :
        SubSeq(child.fieldName, 1, Len(child.fieldName) - 1)
            \o <<capitalizeFirstLetter(variantType)>> \in DOMAIN data.o}

\* Does the object carry two or more fields of a choice group that is a
\* child of the element itself.
CarriesTwoOfOwnChoice(element, data) ==
    /\ data.t = "object"
    /\ \E i \in 1..Len(element.children) :
          /\ endsWithX(element.children[i].fieldName)
          /\ Cardinality(ChoiceFieldsCarried(element.children[i], data)) >= 2

RECURSIVE CarriesTwoOfAChoice(_, _)
\* Does the document carry two or more fields of a choice group of the
\* definition: in the object itself or in an object that is, or is an
\* element of, the value of one of its fields.
CarriesTwoOfAChoice(element, data) ==
    /\ data.t = "object"
    /\ \/ CarriesTwoOfOwnChoice(element, data)
       \/ \E i \in 1..Len(element.children) :
             LET child == element.children[i]
             IN /\ child.fieldName \in DOMAIN data.o
                /\ \/ CarriesTwoOfAChoice(child, data.o[child.fieldName])
                   \/ /\ data.o[child.fieldName].t = "array"
                      /\ \E k \in 1..Len(data.o[child.fieldName].a) :
                            CarriesTwoOfAChoice(child, data.o[child.fieldName].a[k])

\* C17: a validator compiled from a StructureDefinition with a [x] element
\* fails every document that carries two or more fields of one of the
\* definition's choice groups.
C17_ChoiceOfTypeExclusivity ==
    (parsed # NoParse /\ CarriesTwoOfAChoice(ParsedStructure, parsed.input))
        => ~parsed.success

\* C17 for the choice groups of the root element alone.
C17_RootChoiceExclusivity ==
    (parsed # NoParse /\ CarriesTwoOfOwnChoice(ParsedStructure, parsed.input))
        => ~parsed.success

\* A document with both asNeededBoolean and asNeededCodeableConcept, each
\* valid on its own, was parsed by the Dosage validator.
C17_RootChoiceWitness ==
    /\ parsed # NoParse /\ parsed.type = "Dosage"
    /\ CarriesTwoOfOwnChoice(ParsedStructure, parsed.input)
    /\ parsed.input.o[<<"asNeeded", "CodeableConcept">>] # EmptyObject

\* C17 fails on: the Dosage validator and {doseAndRate: [{doseRange: ...,
\* doseQuantity: ...}]}, which it accepts.
C17_Refuted ==
    /\ parsed # NoParse /\ parsed.success
    /\ CarriesTwoOfAChoice(ParsedStructure, parsed.input)

\* Is the value a non-empty array of {} only.
EmptyObjectsOnly(value) ==
    /\ value.t = "array" /\ Len(value.a) > 0
    /\ \A k \in 1..Len(value.a) : value.a[k] = EmptyObject

\* A MedicationRequest with a valid status whose dosageInstruction holds
\* {} only: {} occurs as an element of an array and nowhere else, and no
\* element of Dosage is required.
EmptyObjectInArrayOnly(document) ==
    /\ document.t = "object"
    /\ DOMAIN document.o = {FieldName("status"), FieldName("dosageInstruction")}
    /\ document.o[FieldName("status")] = JString("active")
    /\ EmptyObjectsOnly(document.o[FieldName("dosageInstruction")])

\* C18: a validator compiled from a complex-type or resource
\* StructureDefinition rejects {} as the document, and tolerates {} as an
\* element of an array: a document that is valid but for {} as the elements
\* of an array of a compiled type without required elements is accepted.
C18_EmptyObjectRejection ==
    parsed # NoParse =>
        /\ parsed.input = EmptyObject => ~parsed.success
        /\ (parsed.type = "MedicationRequest" /\ EmptyObjectInArrayOnly(parsed.input))
              => parsed.success

\* The first half of C18: {} as the document is rejected.
C18_EmptyDocumentRejected ==
    (parsed # NoParse /\ parsed.input = EmptyObject) => ~parsed.success

\* {} was parsed as the document.
C18_EmptyDocumentWitness ==
    parsed # NoParse /\ parsed.input = EmptyObject /\ ~parsed.success

\* C18 fails on: the MedicationRequest validator, compiled after Dosage, and
\* {status: "active", dosageInstruction: [{}, {}]}.
C18_Refuted ==
    /\ parsed # NoParse /\ parsed.type = "MedicationRequest"
    /\ EmptyObjectInArrayOnly(parsed.input) /\ ~parsed.success

\* {} as an element of an array of the built-in type Element is tolerated:
\* the Dosage validator accepts a document whose doseAndRate is [{}].
C18_BuiltInElementTolerates ==
    ( /\ parsed # NoParse /\ parsed.type = "Dosage" /\ parsed.input.t = "object"
      /\ DOMAIN parsed.input.o = {FieldName("doseAndRate")}
      /\ EmptyObjectsOnly(parsed.input.o[FieldName("doseAndRate")]) ) => parsed.success

-----------------------------------------------------------------------------
(* Properties of the refinements: constraints, slices, exact values *)

\* The children of the root of the parsed definition.
ParsedChildren == ParsedStructure.children

\* The values the document has at the field of a child of the root.
ValuesAt(document, child) == evaluatePath(<<document>>, <<child.fieldName>>, 1)

\* Does the expression of the constraint, evaluated on the node, yield a
\* non-empty list with a falsy element.
YieldsFalsy(constraint, node) ==
    LET evaluated == fhirpathEvaluate(node, constraint.expression)
    IN /\ ~evaluated.thrown
       /\ \E i \in 1..Len(evaluated.result) : ~Truthy(evaluated.result[i])

\* Does a constraint of a child of the root yield a falsy element on one of
\* the document's values of that child.
ConstraintViolated(document) ==
    \E i \in 1..Len(ParsedChildren) :
        LET child == ParsedChildren[i]
            values == ValuesAt(document, child)
        IN \E c \in 1..Len(child.constraint), v \in 1..Len(values) :
              YieldsFalsy(child.constraint[c], values[v])

\* C23: a FHIRPath constraint adds an issue when its expression yields a
\* non-empty list that holds a falsy element: a document with a value on
\* which a constraint of its element yields such a list is rejected.
C23_FalsyResultFailsTheConstraint ==
    (parsed # NoParse /\ parsed.input.t = "object" /\ ConstraintViolated(parsed.input))
        => ~parsed.success

\* C23 fails on: the Patient validator and {gender: "female", name: [{given:
\* ["b"]}]}. family.exists() yields [false] on the name, and the document is
\* accepted.
C23_Refuted ==
    /\ parsed # NoParse /\ parsed.type = "Patient"
    /\ parsed.input = ObjectOf(<< <<FieldName("gender"), JString("female")>>,
                                  <<FieldName("name"),
                                    JArray(<<JObject(FieldName("given") :>
                                                        JArray(<<JString("b")>>))>>)>> >>)
    /\ ConstraintViolated(parsed.input)
    /\ parsed.success

\* What holds of the constraints: they never reject a document. The Patient
\* validator gives a document the verdict it gives the document without its
\* names if the names are well-formed HumanNames, whatever the constraints
\* yield on them, an evaluation error included.
C23_ConstraintsNeverAddAnIssue ==
    (parsed # NoParse /\ parsed.type = "Patient" /\ parsed.input.t = "object"
     /\ FieldName("name") \in DOMAIN parsed.input.o
     /\ \A key \in DOMAIN parsed.input.o : key \in {FieldName("gender"), FieldName("name"),
                                                  FieldName("identifier")})
        => parsed.success =
              safeParse(zodSchemas[StructureDefinitionUrl("Patient")],
                        JObject([key \in DOMAIN parsed.input.o \ {FieldName("name")} |->
                                    parsed.input.o[key]]))

\* Does the array element match the slice: every discriminator's path yields,
\* on the element, the pattern or fixed value the slice has at that path.
ElementMatchesSlice(intermediate, slice, item) ==
    \A d \in 1..Len(intermediate.slicing[1].discriminator) :
        LET disc == intermediate.slicing[1].discriminator[d]
            sliceField == fieldAtPath(slice, disc.path, 1)
            values == evaluatePath(<<item>>, disc.path, 1)
        IN /\ sliceField # <<>>
           /\ Len(values) = 1
           /\ values[1] = OrElse(sliceField[1].pattern, sliceField[1].fixed)

\* A sliced child of the root, with discriminators of the supported types,
\* has a slice with min >= 1 that no element of the document's array matches.
RequiredSliceUnmatched(document) ==
    \E i \in 1..Len(ParsedChildren) :
        LET child == ParsedChildren[i]
            items == ValuesAt(document, child)
        IN /\ child.fieldName \in DOMAIN document.o
           /\ child.slicing # <<>>
           /\ \A d \in 1..Len(child.slicing[1].discriminator) :
                 child.slicing[1].discriminator[d].type \in {"value", "pattern"}
           /\ \E k \in 1..Len(child.slicing[1].slices) :
                 /\ child.slicing[1].slices[k].min >= 1
                 /\ \A v \in 1..Len(items) :
                       ~ElementMatchesSlice(child, child.slicing[1].slices[k], items[v])

\* C24: if a slice of a sliced array element with supported discriminators
\* has min >= 1 and no element of the array matches the slice, validating the
\* enclosing object reports an error: the document is rejected.
C24_RequiredSliceIsEnforced ==
    (parsed # NoParse /\ parsed.input.t = "object" /\ RequiredSliceUnmatched(parsed.input))
        => ~parsed.success

\* C24 fails on: the Patient validator and {gender: "female", identifier:
\* [{system: "urn:x"}]}. No identifier matches the slice PIC, whose min is 1,
\* and the document is accepted.
C24_Refuted ==
    /\ parsed # NoParse /\ parsed.type = "Patient"
    /\ parsed.input = ObjectOf(<< <<FieldName("gender"), JString("female")>>,
                                  <<FieldName("identifier"),
                                    JArray(<<IdentifierOf("urn:x")>>)>> >>)
    /\ RequiredSliceUnmatched(parsed.input)
    /\ parsed.success

\* The object with the field set to the value.
WithField(document, key, value) ==
    JObject([k \in DOMAIN document.o \cup {key} |-> IF k = key THEN value ELSE document.o[k]])

\* C29: a fixed or pattern value on an optional element constrains the
\* element only when it is present: a document that omits the field gets the
\* verdict of the same document with the field at its required value.
C29_ExactValueOnlyWhenPresent ==
    (parsed # NoParse /\ parsed.input.t = "object") =>
        \A i \in 1..Len(ParsedChildren) :
            LET child == ParsedChildren[i]
                requiredValue == OrElse(child.pattern, child.fixed)
            IN ( /\ child.min = 0 /\ Truthy(requiredValue) /\ child.slicing = <<>>
                 /\ child.fieldName \notin DOMAIN parsed.input.o )
               => parsed.success =
                     safeParse(zodSchemas[StructureDefinitionUrl(parsed.type)],
                               WithField(parsed.input, child.fieldName, requiredValue))

\* C29 fails on: the Patient validator and {name: [{family: "a"}]}. gender is
\* 0..1 with the fixed value "female"; the document omits it and is rejected,
\* and with gender: "female" it is accepted.
C29_Refuted ==
    /\ parsed # NoParse /\ parsed.type = "Patient"
    /\ parsed.input = JObject(FieldName("name") :>
                                 JArray(<<JObject(FieldName("family") :> JString("a"))>>))
    /\ ~parsed.success
    /\ safeParse(zodSchemas[StructureDefinitionUrl("Patient")],
                 WithField(parsed.input, FieldName("gender"), JString("female")))

\* What holds of the exact value: a present field with another value is
\* rejected.
C29_OtherValueRejected ==
    (parsed # NoParse /\ parsed.type = "Patient" /\ parsed.input.t = "object"
     /\ FieldName("gender") \in DOMAIN parsed.input.o
     /\ parsed.input.o[FieldName("gender")] # JString("female")) => ~parsed.success

-----------------------------------------------------------------------------
(* Specification SpecIntermediate: the snapshot of a Patient profile is
   written element by element, in any order, then converted *)

\* The longest snapshot.
MaxElements == 5

\* The element Patient.identifier, sliced by the value of system or not
\* sliced at all.
IdentifierElement(sliced) ==
    [ElementDefinition(<<FieldName("Patient"), FieldName("identifier")>>, 0, "*",
                       <<"Identifier">>)
        EXCEPT !.slicing = IF sliced
                           THEN Slicing(<<[type |-> "value", path |-> <<FieldName("system")>>]>>,
                                        "open")
                           ELSE <<>>]

\* The elements a snapshot of the model is written from: those of
\* PatientDefinition, Patient.identifier without its slicing, and
\* Patient.name.family.
ElementPool ==
    {PatientDefinition.snapshot.element[i] : i \in 1..Len(PatientDefinition.snapshot.element)}
    \cup {IdentifierElement(FALSE),
          ElementDefinition(<<FieldName("Patient"), FieldName("name"), FieldName("family")>>,
                            0, "1", <<"string">>)}

InitIntermediate ==
    /\ snapshotElements = <<>> /\ imForm = <<>> /\ ipc = "write"
    /\ SortIdle /\ DedupeIdle /\ CompileIdle /\ ValidatorsIdle /\ FacadeIdle
    /\ DocumentsIdle /\ HierarchyIdle /\ OthersIdle

\* One more element of the snapshot, with an id no element before it has.
WriteElement(element) ==
    /\ ipc = "write"
    /\ Len(snapshotElements) < MaxElements
    /\ \A i \in 1..Len(snapshotElements) : snapshotElements[i].id # element.id
    /\ snapshotElements' = Append(snapshotElements, element)
    /\ UNCHANGED <<imForm, ipc>>
    /\ UNCHANGED <<sortVars, dedupeVars, compileVars, validatorVars, facadeVars, documentVars, hierarchyVars, kindVars, dependencyVars, promiseVars, loaderVars>>

\* convertStructureDefinitionToIntermediateFormat(sd), sd the profile with
\* the snapshot written.
ConvertSnapshot ==
    /\ ipc = "write"
    /\ LET imf == convertStructureDefinitionToIntermediateFormat(
                      [PatientDefinition EXCEPT !.snapshot.element = snapshotElements])
       IN IF imf = Thrown
          THEN imForm' = <<>> /\ ipc' = "thrown"
          ELSE imForm' = <<imf.structure>> /\ ipc' = "converted"
    /\ UNCHANGED snapshotElements
    /\ UNCHANGED <<sortVars, dedupeVars, compileVars, validatorVars, facadeVars, documentVars, hierarchyVars, kindVars, dependencyVars, promiseVars, loaderVars>>

NextIntermediate ==
    \/ \E element \in ElementPool : WriteElement(element)
    \/ ConvertSnapshot

SpecIntermediate == InitIntermediate /\ [][NextIntermediate]_vars

\* The slices of an element of the intermediate form.
SlicesOf(element) == IF element.slicing = <<>> THEN <<>> ELSE element.slicing[1].slices

RECURSIVE Placements(_), PlacementsOfAll(_, _)
\* Where the elements below this one are stored: one [parent, list, id] for
\* each entry of a children list or a slices list of the subtree.
Placements(element) ==
    [i \in 1..Len(element.children) |->
        [parent |-> element.id, list |-> "children", id |-> element.children[i].id]]
    \o [i \in 1..Len(SlicesOf(element)) |->
        [parent |-> element.id, list |-> "slices", id |-> SlicesOf(element)[i].id]]
    \o PlacementsOfAll(element.children, 1)
    \o PlacementsOfAll(SlicesOf(element), 1)

PlacementsOfAll(list, i) ==
    IF i > Len(list) THEN <<>> ELSE Placements(list[i]) \o PlacementsOfAll(list, i + 1)

\* The places of the intermediate form that hold the element with that id.
PlacesOf(id) == SelectSeq(Placements(imForm[1]), LAMBDA place : place.id = id)

\* The root of the snapshot and its other elements.
IsRootElement(element) == element.id = <<FieldName(PatientDefinition.type)>>
SliceIntroducers ==
    {snapshotElements[i] : i \in {j \in 1..Len(snapshotElements) :
                                     snapshotElements[j].sliceName # ""}}
OtherElements ==
    {snapshotElements[i] : i \in {j \in 1..Len(snapshotElements) :
                                     /\ snapshotElements[j].sliceName = ""
                                     /\ ~IsRootElement(snapshotElements[j])}}

\* The element of the snapshot with the id that parentIdOf gives the element.
ParentElement(element) ==
    CHOOSE parent \in {snapshotElements[i] : i \in 1..Len(snapshotElements)} :
        parent.id = parentIdOf(convertElementDefinition(element))

\* Every other non-root element is stored exactly once, in the children of
\* the element identified by its id with the last segment stripped.
OthersAreChildrenOfTheirParent ==
    \A element \in OtherElements :
        PlacesOf(element.id) =
            <<[parent |-> SubSeq(element.id, 1, Len(element.id) - 1),
               list |-> "children", id |-> element.id]>>

\* C25 as stated: in the intermediate form every slice introducer of the
\* snapshot is stored in the slices of its parent and in no children list, and
\* every other non-root element exactly once, in the children of the element
\* identified by its id with the last segment stripped.
C25_SlicesInSlicingChildrenInChildren ==
    ipc = "converted" =>
        /\ \A element \in SliceIntroducers :
              PlacesOf(element.id) =
                  <<[parent |-> parentIdOf(convertElementDefinition(element)),
                     list |-> "slices", id |-> element.id]>>
        /\ OthersAreChildrenOfTheirParent

\* C25 fails on: the snapshot Patient, Patient.identifier without slicing,
\* Patient.identifier:PIC. The conversion succeeds and the slice introducer
\* is stored nowhere.
C25_Refuted ==
    /\ ipc = "converted"
    /\ \E element \in SliceIntroducers :
          /\ ParentElement(element).slicing = <<>>
          /\ PlacesOf(element.id) = <<>>

\* C25, amended: a slice introducer whose parent declares slicing is stored
\* exactly once, in the slices of that parent; one whose parent declares no
\* slicing is stored nowhere (it is skipped with a warning); none is in a
\* children list. Every other non-root element is stored exactly once, in the
\* children of the element identified by its id with the last segment
\* stripped.
C25_Amended ==
    ipc = "converted" =>
        /\ \A element \in SliceIntroducers :
              PlacesOf(element.id) =
                  IF ParentElement(element).slicing # <<>>
                  THEN <<[parent |-> parentIdOf(convertElementDefinition(element)),
                          list |-> "slices", id |-> element.id]>>
                  ELSE <<>>
        /\ OthersAreChildrenOfTheirParent

\* A converted snapshot with a slice in the slices of the sliced element, an
\* element below that slice, and a child of the root.
C25_Witness ==
    /\ ipc = "converted"
    /\ \E element \in SliceIntroducers :
          /\ ParentElement(element).slicing # <<>>
          /\ Len(PlacesOf(element.id)) = 1
          /\ \E child \in OtherElements :
                SubSeq(child.id, 1, Len(child.id) - 1) = element.id
    /\ Cardinality(OtherElements) >= 2

-----------------------------------------------------------------------------
(* Specification SpecKind: resource files are collected, then sorted with
   Array.prototype.sort under sortResourceFilesByKind *)

\* The longest array sorted, the number of names and the number of URLs.
MaxKindFiles == 3
NumNames == 2
NumKindUrls == 2

\* The files sorted: code systems and value sets, which have no kind, and
\* StructureDefinitions of the kinds FHIR gives them.
KindFiles ==
    [resourceType : {"CodeSystem", "ValueSet"}, kind : {""},
     name : 1..NumNames, url : 1..NumKindUrls]
    \cup [resourceType : {"StructureDefinition"},
          kind : {"primitive-type", "complex-type", "resource"},
          name : 1..NumNames, url : 1..NumKindUrls]

InitKind ==
    /\ kindInput = <<>> /\ kindOutput = <<>> /\ kpc = "collect"
    /\ SortIdle /\ DedupeIdle /\ CompileIdle /\ ValidatorsIdle /\ FacadeIdle
    /\ DocumentsIdle /\ HierarchyIdle /\ IntermediateIdle
    /\ DependenciesIdle /\ PromisesIdle /\ LoaderIdle

\* One more file in the array.
CollectFile(file) ==
    /\ kpc = "collect"
    /\ Len(kindInput) < MaxKindFiles
    /\ file \notin Range(kindInput)
    /\ kindInput' = Append(kindInput, file)
    /\ UNCHANGED <<kindOutput, kpc>>
    /\ UNCHANGED <<sortVars, dedupeVars, compileVars, validatorVars, facadeVars, documentVars, hierarchyVars, intermediateVars, dependencyVars, promiseVars, loaderVars>>

\* files.sort(sortResourceFilesByKind)
SortByKind ==
    /\ kpc = "collect"
    /\ kindOutput' = <<ArraySortByKind(kindInput, 1, <<>>)>>
    /\ kpc' = "sorted"
    /\ UNCHANGED kindInput
    /\ UNCHANGED <<sortVars, dedupeVars, compileVars, validatorVars, facadeVars, documentVars, hierarchyVars, intermediateVars, dependencyVars, promiseVars, loaderVars>>

NextKind ==
    \/ \E file \in KindFiles : CollectFile(file)
    \/ SortByKind

SpecKind == InitKind /\ [][NextKind]_vars

\* The place the stated order gives a file: code systems, value sets,
\* primitive types, complex types, resources.
StatedRank(file) ==
    CASE file.resourceType = "CodeSystem" -> 1
      [] file.resourceType = "ValueSet" -> 2
      [] file.kind = "primitive-type" -> 3
      [] file.kind = "complex-type" -> 4
      [] OTHER -> 5

\* The stated order: by rank, then by name, then by URL.
StatedBefore(a, b) ==
    \/ StatedRank(a) < StatedRank(b)
    \/ StatedRank(a) = StatedRank(b) /\ a.name < b.name
    \/ StatedRank(a) = StatedRank(b) /\ a.name = b.name /\ a.url <= b.url

\* C26: the array sorted by kind has code systems before value sets before
\* StructureDefinitions, among these primitive types (kind primitive-type)
\* before complex types before resources, and files of one rank by name and
\* then by URL, whatever the order of the input.
C26_SortedByKindNameUrl ==
    kpc = "sorted" =>
        \A i, j \in 1..Len(kindOutput[1]) :
            i < j => StatedBefore(kindOutput[1][i], kindOutput[1][j])

\* C26 fails on: [a complex type, a primitive type] and [a primitive type, a
\* complex type]. Both are sorted with the primitive type last.
C26_Refuted ==
    /\ kpc = "sorted"
    /\ \E i, j \in 1..Len(kindOutput[1]) :
          /\ i < j
          /\ kindOutput[1][i].kind \in {"complex-type", "resource"}
          /\ kindOutput[1][j].kind = "primitive-type"

\* What the comparator does with the kinds of FHIR: primitive types come
\* last; the rest of the stated order holds, whatever the order of the input.
C26_PrimitiveTypesComeLast ==
    kpc = "sorted" =>
        \A i, j \in 1..Len(kindOutput[1]) :
            i < j =>
                LET a == kindOutput[1][i]
                    b == kindOutput[1][j]
                    rank(f) == IF f.kind = "primitive-type" THEN 6 ELSE StatedRank(f)
                IN \/ rank(a) < rank(b)
                   \/ rank(a) = rank(b) /\ a.name < b.name
                   \/ rank(a) = rank(b) /\ a.name = b.name /\ a.url <= b.url

-----------------------------------------------------------------------------
(* Specification SpecDependencies: the snapshot of a StructureDefinition is
   written element by element, then its dependencies are extracted *)

\* The longest snapshot dependencies are extracted from.
MaxSnapshot == 2

\* A value set a binding names.
AdministrativeGenderUrl == "http://hl7.org/fhir/ValueSet/administrative-gender"

\* url.match(/^https?:/)
MatchesHttp(url) == IsHttpUrl(url) \/ url = AdministrativeGenderUrl

\* Array.prototype.sort() on strings: the URLs of the model in the order of
\* their UTF-16 code units.
CodeUnitOrder ==
    <<StructureDefinitionUrl("Element"), StructureDefinitionUrl("Extension"),
      AdministrativeGenderUrl>>
ArraySort(list) == SelectSeq(CodeUnitOrder, LAMBDA url : url \in Range(list))

RECURSIVE FlatMap(_, _, _)
\* array.flatMap(f), from index i on.
FlatMap(array, f(_), i) ==
    IF i > Len(array) THEN <<>> ELSE f(array[i]) \o FlatMap(array, f, i + 1)

expandStandardTypes(url) ==
    IF ~MatchesHttp(url) THEN StructureDefinitionUrl(url) ELSE url

\* The urls one element of the snapshot contributes. A missing profile or
\* targetProfile is the list <<>>, a missing source or value set is "".
urlsOfElement(sd, element) ==
    FlatMap(element.type,
            LAMBDA type :
                <<type.code>>
                \o SelectSeq(type.profile, LAMBDA url : url # sd.url)
                \o SelectSeq(type.targetProfile, LAMBDA url : url # sd.url),
            1)
    \o FlatMap(element.constraint,
               LAMBDA constraint :
                   IF constraint.source # "" /\ constraint.source # sd.url
                   THEN <<constraint.source>> ELSE <<>>,
               1)
    \o (IF element.binding.strength = "required" /\ element.binding.valueSet # ""
        THEN <<element.binding.valueSet>> ELSE <<>>)

dependenciesOfStructureDefinition(sd) ==
    LET deps == FlatMap(sd.snapshot.element, LAMBDA element : urlsOfElement(sd, element), 1)
                \o (IF sd.baseDefinition # "" THEN <<sd.baseDefinition>> ELSE <<>>)
        truthy == SelectSeq(deps, LAMBDA x : x # "")
        others == SelectSeq(truthy, LAMBDA x : x # sd.url)
        expanded == [i \in 1..Len(others) |-> expandStandardTypes(others[i])]
    IN ArraySort(Unique(expanded, {}))

\* The types, constraints and bindings of the elements written.
TypeNames == {"Element", "Extension"}
ElementTypes ==
    [code : TypeNames \cup {StructureDefinitionUrl("Extension")},
     profile : {<<>>, <<StructureDefinitionUrl("Extension")>>},
     targetProfile : {<<>>, <<StructureDefinitionUrl("Extension")>>}]
ElementBindings ==
    {[strength |-> "", valueSet |-> ""],
     [strength |-> "required", valueSet |-> AdministrativeGenderUrl],
     [strength |-> "example", valueSet |-> AdministrativeGenderUrl]}
SnapshotElements ==
    [type : {<<>>} \cup {<<type>> : type \in ElementTypes},
     constraint : {<<>>} \cup {<<[source |-> StructureDefinitionUrl(name)]>> : name \in TypeNames},
     binding : ElementBindings]

\* A StructureDefinition of the base namespace with nothing in its snapshot.
InitDependencies ==
    /\ \E type \in TypeNames, baseDefinition \in {"", StructureDefinitionUrl("Element")} :
          extractSd = [url |-> StructureDefinitionUrl(type), type |-> type,
                       baseDefinition |-> baseDefinition,
                       snapshot |-> [element |-> <<>>]]
    /\ extractDeps = <<>> /\ xpc = "write"
    /\ SortIdle /\ DedupeIdle /\ CompileIdle /\ ValidatorsIdle /\ FacadeIdle
    /\ DocumentsIdle /\ HierarchyIdle /\ IntermediateIdle
    /\ KindIdle /\ PromisesIdle /\ LoaderIdle

\* One more element in the snapshot.
WriteSnapshotElement(element) ==
    /\ xpc = "write"
    /\ Len(extractSd.snapshot.element) < MaxSnapshot
    /\ extractSd' = [extractSd EXCEPT !.snapshot.element = Append(@, element)]
    /\ UNCHANGED <<extractDeps, xpc>>
    /\ UNCHANGED <<sortVars, dedupeVars, compileVars, validatorVars, facadeVars, documentVars, hierarchyVars, intermediateVars, kindVars, promiseVars, loaderVars>>

\* extractDependenciesFromResource(sd)
ExtractDependencies ==
    /\ xpc = "write"
    /\ extractDeps' = <<dependenciesOfStructureDefinition(extractSd)>>
    /\ xpc' = "extracted"
    /\ UNCHANGED extractSd
    /\ UNCHANGED <<sortVars, dedupeVars, compileVars, validatorVars, facadeVars, documentVars, hierarchyVars, intermediateVars, kindVars, promiseVars, loaderVars>>

NextDependencies ==
    \/ \E element \in SnapshotElements : WriteSnapshotElement(element)
    \/ ExtractDependencies

SpecDependencies == InitDependencies /\ [][NextDependencies]_vars

\* Does an element of the definition have the definition's own type name as
\* a bare type code.
HasSelfTypedElement ==
    \E i \in 1..Len(extractSd.snapshot.element) :
        \E k \in 1..Len(extractSd.snapshot.element[i].type) :
            extractSd.snapshot.element[i].type[k].code = extractSd.type

\* C27: the dependencies extracted for a StructureDefinition never contain
\* the definition's own canonical URL, also when one of its elements has the
\* definition's own type name as a bare type code.
C27_NoSelfDependency ==
    xpc = "extracted" => extractSd.url \notin Range(extractDeps[1])

\* C27 fails on: the Extension definition with an element of type code
\* "Extension". Its dependencies hold the URL of the Extension definition.
C27_Refuted ==
    /\ xpc = "extracted"
    /\ HasSelfTypedElement
    /\ extractSd.url \in Range(extractDeps[1])

\* The own URL is among the dependencies exactly when an element has the
\* own type name as a bare type code: the own URL written out, as a type
\* code, a profile, a target profile, a constraint source or the base
\* definition, is left out.
C27_OnlyBareTypeCodesSlipThrough ==
    xpc = "extracted" => (extractSd.url \in Range(extractDeps[1]) <=> HasSelfTypedElement)

-----------------------------------------------------------------------------
(* Specification SpecPromises: loadPackages and recognizes are called on one
   FhirValidator without awaiting what they return; the promises they leave
   behind settle one at a time *)

\* The loadPackages calls after the constructor's, the recognizes calls, and
\* the packages asked for; package 0 is in no registry.
MaxChain == 2
MaxCalls == 2
RequestedPackages == 0..2

Pending == [state |-> "pending", value |-> <<>>]
Fulfilled(value) == [state |-> "fulfilled", value |-> <<value>>]
RejectedPromise == [state |-> "rejected", value |-> <<>>]

\* this.loadedFiles.then(async (previousFiles) => ...) of loadPackages: the
\* promise it returns, still pending, with the package names it closes over.
ThenLoad(packageNames) == [promise |-> Pending, packageNames |-> packageNames]

\* this.loadedFiles.then(generateZodSchemasForResourceFiles), still pending:
\* files is the place in the chain of the promise it is chained to.
ThenGenerate(files) == [promise |-> Pending, files |-> files]

\* The promise a call would await if it waited for nothing that has not
\* settled yet.
awaitedSettledSchemas(schemasPromises) ==
    IF \E k \in 1..Len(schemasPromises) : schemasPromises[k].promise.state # "pending"
    THEN CHOOSE k \in 1..Len(schemasPromises) :
             /\ schemasPromises[k].promise.state # "pending"
             /\ \A j \in (k + 1)..Len(schemasPromises) :
                   schemasPromises[j].promise.state = "pending"
    ELSE Len(schemasPromises)

\* await this.loadedSchemas, as recognizes and validate evaluate it when they
\* are called: the promise the field holds at that moment.
awaitedSchemas(schemasPromises) == Len(schemasPromises)

\* new FhirValidator(): the field initialisers, then the constructor's
\* this.loadPackages() up to its first await.
InitPromises ==
    /\ thisLoadedFiles = <<ThenLoad(<<>>)>>
    /\ thisLoadedSchemas = <<ThenGenerate(1)>>
    /\ loaderState = <<>> /\ calls = <<>> /\ apc = "on"
    /\ SortIdle /\ DedupeIdle /\ CompileIdle /\ ValidatorsIdle /\ FacadeIdle
    /\ DocumentsIdle /\ HierarchyIdle /\ IntermediateIdle
    /\ KindIdle /\ DependenciesIdle /\ LoaderIdle

\* validator.loadPackages(p), not awaited: the call runs up to the await of
\* startGeneratingSchemas and leaves both fields reassigned.
CallLoadPackages(p) ==
    /\ apc = "on"
    /\ Len(thisLoadedFiles) <= MaxChain
    /\ thisLoadedFiles' = Append(thisLoadedFiles, ThenLoad(<<p>>))
    /\ thisLoadedSchemas' = Append(thisLoadedSchemas, ThenGenerate(Len(thisLoadedFiles')))
    /\ UNCHANGED <<loaderState, calls, apc>>
    /\ UNCHANGED <<sortVars, dedupeVars, compileVars, validatorVars, facadeVars, documentVars, hierarchyVars, intermediateVars, kindVars, dependencyVars, loaderVars>>

\* The callback of loadPackages runs, the promise before it having settled:
\* the resource loader loads the packages and returns all its files.
SettleLoadedFiles(k) ==
    /\ apc = "on"
    /\ k \in 1..Len(thisLoadedFiles)
    /\ thisLoadedFiles[k].promise.state = "pending"
    /\ k > 1 => thisLoadedFiles[k - 1].promise.state # "pending"
    /\ LET previousFiles == IF k = 1 THEN <<>> ELSE thisLoadedFiles[k - 1].promise.value[1]
           packageNames == thisLoadedFiles[k].packageNames
       IN IF k > 1 /\ thisLoadedFiles[k - 1].promise.state = "rejected"
          THEN /\ thisLoadedFiles' = [thisLoadedFiles EXCEPT ![k].promise = RejectedPromise]
               /\ UNCHANGED loaderState
          ELSE IF \E i \in 1..Len(packageNames) : packageNames[i] \notin 1..NumPackages
          THEN /\ thisLoadedFiles' = [thisLoadedFiles EXCEPT ![k].promise = RejectedPromise]
               /\ UNCHANGED loaderState
          ELSE /\ loaderState' =
                      sortResourceFiles(
                          loaderState
                          \o (IF packageNames = <<>> THEN <<>> ELSE loadResources(packageNames[1])))
               /\ thisLoadedFiles' =
                      [thisLoadedFiles EXCEPT
                          ![k].promise = Fulfilled(previousFiles \o loaderState')]
    /\ UNCHANGED <<thisLoadedSchemas, calls, apc>>
    /\ UNCHANGED <<sortVars, dedupeVars, compileVars, validatorVars, facadeVars, documentVars, hierarchyVars, intermediateVars, kindVars, dependencyVars, loaderVars>>

\* generateZodSchemasForResourceFiles runs on the files its promise resolved to.
SettleLoadedSchemas(k) ==
    /\ apc = "on"
    /\ k \in 1..Len(thisLoadedSchemas)
    /\ thisLoadedSchemas[k].promise.state = "pending"
    /\ LET files == thisLoadedFiles[thisLoadedSchemas[k].files].promise
       IN /\ files.state # "pending"
          /\ thisLoadedSchemas' =
                 [thisLoadedSchemas EXCEPT
                     ![k].promise =
                         IF files.state = "rejected" THEN RejectedPromise
                         ELSE Fulfilled(generateZodSchemasForResourceFiles(files.value[1]).snapshot)]
    /\ UNCHANGED <<thisLoadedFiles, loaderState, calls, apc>>
    /\ UNCHANGED <<sortVars, dedupeVars, compileVars, validatorVars, facadeVars, documentVars, hierarchyVars, intermediateVars, kindVars, dependencyVars, loaderVars>>

\* validator.recognizes(nameOrUrl), or validator.validate of a document that
\* declares no profile and has that url, up to `await this.loadedSchemas`.
\* loadsBefore and settledBefore record how many loads had been issued, and
\* how many of them had settled, when the call was made.
CallValidator(method, nameOrUrl) ==
    /\ apc = "on"
    /\ Len(calls) < MaxCalls
    /\ calls' = Append(calls, [method |-> method, nameOrUrl |-> nameOrUrl,
                               awaits |-> awaitedSchemas(thisLoadedSchemas),
                               loadsBefore |-> Len(thisLoadedFiles),
                               settledBefore |->
                                   Cardinality({k \in 1..Len(thisLoadedFiles) :
                                                   thisLoadedFiles[k].promise.state # "pending"}),
                               schemas |-> Pending])
    /\ UNCHANGED <<thisLoadedFiles, thisLoadedSchemas, loaderState, apc>>
    /\ UNCHANGED <<sortVars, dedupeVars, compileVars, validatorVars, facadeVars, documentVars, hierarchyVars, intermediateVars, kindVars, dependencyVars, loaderVars>>

\* The call goes on after its await, with what the promise settled to.
ResumeCall(c) ==
    /\ apc = "on"
    /\ c \in 1..Len(calls)
    /\ calls[c].schemas.state = "pending"
    /\ thisLoadedSchemas[calls[c].awaits].promise.state # "pending"
    /\ calls' = [calls EXCEPT ![c].schemas = thisLoadedSchemas[calls[c].awaits].promise]
    /\ UNCHANGED <<thisLoadedFiles, thisLoadedSchemas, loaderState, apc>>
    /\ UNCHANGED <<sortVars, dedupeVars, compileVars, validatorVars, facadeVars, documentVars, hierarchyVars, intermediateVars, kindVars, dependencyVars, loaderVars>>

NextPromises ==
    \/ \E p \in RequestedPackages : CallLoadPackages(p)
    \/ \E k \in 1..(MaxChain + 1) : SettleLoadedFiles(k)
    \/ \E k \in 1..(MaxChain + 1) : SettleLoadedSchemas(k)
    \/ \E method \in {"recognizes", "validate"}, nameOrUrl \in Urls :
          CallValidator(method, nameOrUrl)
    \/ \E c \in 1..MaxCalls : ResumeCall(c)

SpecPromises == InitPromises /\ [][NextPromises]_vars

\* What the call returns: recognizes its boolean, validate its result.
AnswerOf(call) ==
    IF call.method = "recognizes"
    THEN call.nameOrUrl \in call.schemas.value[1]
    ELSE validate(call.schemas.value[1], {},
                  [form |-> "object",
                   value |-> [type |-> "object", profile |-> <<>>, url |-> call.nameOrUrl,
                              conforms |-> {call.nameOrUrl}]],
                  [profiles |-> <<>>, ignoreSelfDeclaredProfiles |-> FALSE,
                   ignoreUnknownSchemas |-> FALSE]).success

RECURSIVE LoadedOneByOne(_, _, _, _)
\* The files of the facade once the first n loads of the chain have been
\* made and awaited one after the other, from load i on; <<>> if one of
\* them fails, <<files>> otherwise.
LoadedOneByOne(n, i, loader, files) ==
    IF i > n THEN <<files>>
    ELSE LET packageNames == thisLoadedFiles[i].packageNames
         IN IF \E j \in 1..Len(packageNames) : packageNames[j] \notin 1..NumPackages
            THEN <<>>
            ELSE LET held == sortResourceFiles(
                                 loader \o (IF packageNames = <<>> THEN <<>>
                                            ELSE loadResources(packageNames[1])))
                 IN LoadedOneByOne(n, i + 1, held, files \o held)

\* C28: a recognizes or validate call is answered from the schemas generated
\* from the files of all the loads issued before it, never from those of fewer
\* loads, and fails if one of these loads fails; the loads need not have
\* been awaited, nor settled, when the call is made.
C28_AnsweredFromAllLoadsBefore ==
    \A c \in 1..Len(calls) :
        LET expected == LoadedOneByOne(calls[c].loadsBefore, 1, <<>>, <<>>)
        IN /\ calls[c].schemas.state = "fulfilled"
                 => /\ expected # <<>>
                    /\ calls[c].schemas.value[1]
                           = generateZodSchemasForResourceFiles(expected[1]).snapshot
           /\ calls[c].schemas.state = "rejected" => expected = <<>>

\* Two loads were issued back-to-back and a call made before either had
\* settled; the call is answered, and recognizes a schema of the second load
\* that the schemas of the first load alone do not have.
C28_Witness ==
    \E c \in 1..Len(calls) :
        /\ calls[c].loadsBefore = MaxChain + 1
        /\ calls[c].settledBefore = 0
        /\ calls[c].schemas.state = "fulfilled"
        /\ calls[c].method = "recognizes" /\ AnswerOf(calls[c])
        /\ thisLoadedSchemas[MaxChain].promise.state = "fulfilled"
        /\ calls[c].nameOrUrl \notin thisLoadedSchemas[MaxChain].promise.value[1]

\* A validate call made after a load that was not awaited succeeds on a
\* document whose schema that load brought.
C28_ValidateWitness ==
    \E c \in 1..Len(calls) :
        /\ calls[c].loadsBefore > 1
        /\ calls[c].settledBefore < calls[c].loadsBefore
        /\ calls[c].schemas.state = "fulfilled"
        /\ calls[c].method = "validate" /\ AnswerOf(calls[c])
        /\ thisLoadedSchemas[1].promise.state = "fulfilled"
        /\ calls[c].nameOrUrl \notin thisLoadedSchemas[1].promise.value[1]

-----------------------------------------------------------------------------
(* Specification SpecLoader: loadResources of one or two packages of a FHIR
   cache whose packages depend on one another in any way; the calls of
   recurse that Promise.all holds open run in any order *)

\* The packages of the cache, the longest list of dependencies of a
\* package.json, the most packages loadResources is called with.
NumCached == 3
MaxDependencies == 2
MaxPkgs == 2

\* key(pkg): the packages are numbered by their name#version.
CachedKeys == 1..NumCached

\* collectResourceFiles(dpkg.files) of the package with that key: its files,
\* sorted by kind.
collectResourceFiles(pkg) ==
    ArraySortByKind(<<PackageFile(10 * pkg + 1, pkg, "StructureDefinition", "resource", {}, 1, FALSE),
                      PackageFile(10 * pkg + 2, pkg, "ValueSet", "", {}, 1, FALSE)>>, 1, <<>>)

\* The lists of dependencies a package.json can hold: keys of the cache,
\* the package's own among them, none of them twice.
DependencyLists ==
    {list \in UNION {[1..n -> CachedKeys] : n \in 0..MaxDependencies} :
        \A i, j \in 1..Len(list) : i # j => list[i] # list[j]}

\* A check that finds no key processed.
includesNothing(processed, dependencyKey) == FALSE

\* processedPackages.includes(dependencyKey)
includes(processed, dependencyKey) == dependencyKey \in Range(processed)

\* A call of recurse that has not got past its awaits yet; parent is the
\* call that made it, 0 for the call of loadResourcesForPackage.
Called(pkg, parent) ==
    [pkg |-> pkg, parent |-> parent, state |-> "called", children |-> <<>>, result |-> <<>>]

RECURSIVE mapDependencies(_, _, _, _, _)
\* packageJson.dependencies.map(async (dep) => ...), from dependency i on:
\* the callbacks run one after the other up to the await in recurse. The
\* result holds processedPackages, the calls of recurse, and for each
\* dependency the call made for it, or 0 for [].
mapDependencies(dependencies, i, self, processed, acc) ==
    IF i > Len(dependencies)
    THEN [processedPackages |-> processed, frames |-> acc.frames, children |-> acc.children]
    ELSE LET dependencyKey == dependencies[i]
         IN IF ~includes(processed, dependencyKey)
            THEN mapDependencies(dependencies, i + 1, self, Append(processed, dependencyKey),
                                 [frames |-> Append(acc.frames, Called(dependencyKey, self)),
                                  children |-> Append(acc.children, Len(acc.frames) + 1)])
            ELSE mapDependencies(dependencies, i + 1, self, processed,
                                 [frames |-> acc.frames, children |-> Append(acc.children, 0)])

RECURSIVE flatResults(_, _, _)
\* (await Promise.all(...)).flat()
flatResults(allFrames, children, i) ==
    IF i > Len(children) THEN <<>>
    ELSE (IF children[i] = 0 THEN <<>> ELSE allFrames[children[i]].result)
         \o flatResults(allFrames, children, i + 1)

RECURSIVE pushUnseen(_, _, _)
\* loadResources: for (let resourceFile of batch) { if (!resourceFiles.some(...)) push }
pushUnseen(files, batch, i) ==
    IF i > Len(batch) THEN files
    ELSE pushUnseen(IF \E k \in 1..Len(files) : files[k].filePath = batch[i].filePath
                    THEN files ELSE Append(files, batch[i]),
                    batch, i + 1)

\* loadResources(loader, ...pkgs) is called; package 3 may be missing from
\* the cache and from the registry.
InitLoader ==
    /\ \E dependencies \in [CachedKeys -> DependencyLists], missing \in SUBSET {NumCached} :
          cache = [key \in CachedKeys |->
                      [cached |-> key \notin missing, dependencies |-> dependencies[key]]]
    /\ pkgs \in UNION {[1..n -> CachedKeys] : n \in 1..MaxPkgs}
    /\ batchIndex = 0 /\ processedPackages = <<>> /\ frames = <<>>
    /\ loadedResourceFiles = <<>> /\ lpc = "loading"
    /\ SortIdle /\ DedupeIdle /\ CompileIdle /\ ValidatorsIdle /\ FacadeIdle
    /\ DocumentsIdle /\ HierarchyIdle /\ IntermediateIdle
    /\ KindIdle /\ DependenciesIdle /\ PromisesIdle

\* loadResourcesForPackage(loader, pkg) of the next package: recurse(loader,
\* pkg, []) up to its first await.
LoadResourcesForPackage ==
    /\ lpc = "loading" /\ frames = <<>>
    /\ batchIndex < Len(pkgs)
    /\ batchIndex' = batchIndex + 1
    /\ processedPackages' = <<>>
    /\ frames' = <<Called(pkgs[batchIndex'], 0)>>
    /\ UNCHANGED <<cache, pkgs, loadedResourceFiles, lpc>>
    /\ UNCHANGED <<sortVars, dedupeVars, compileVars, validatorVars, facadeVars, documentVars, hierarchyVars, intermediateVars, kindVars, dependencyVars, promiseVars>>

\* A call of recurse goes on after downloadIfNeeded, findDownloadedPackage and
\* parsePackageJson: it rejects if the package is not there, and else calls
\* recurse for the dependencies not processed yet.
Recurse(f) ==
    /\ f \in 1..Len(frames)
    /\ frames[f].state = "called"
    /\ IF ~cache[frames[f].pkg].cached
       THEN /\ frames' = [frames EXCEPT ![f].state = "rejected"]
            /\ UNCHANGED processedPackages
       ELSE LET mapped == mapDependencies(cache[frames[f].pkg].dependencies, 1, f,
                                          processedPackages,
                                          [frames |-> frames, children |-> <<>>])
            IN /\ processedPackages' = mapped.processedPackages
               /\ frames' = [mapped.frames EXCEPT ![f].state = "awaiting",
                                                  ![f].children = mapped.children]
    /\ UNCHANGED <<cache, pkgs, batchIndex, loadedResourceFiles, lpc>>
    /\ UNCHANGED <<sortVars, dedupeVars, compileVars, validatorVars, facadeVars, documentVars, hierarchyVars, intermediateVars, kindVars, dependencyVars, promiseVars>>

\* Promise.all has settled: the call returns the files of its dependencies
\* and its own, or rejects with the first of its dependencies that did.
ReturnFromRecurse(f) ==
    /\ f \in 1..Len(frames)
    /\ frames[f].state = "awaiting"
    /\ LET children == {frames[f].children[i] : i \in 1..Len(frames[f].children)} \ {0}
       IN \/ /\ \E child \in children : frames[child].state = "rejected"
             /\ frames' = [frames EXCEPT ![f].state = "rejected"]
          \/ /\ \A child \in children : frames[child].state = "returned"
             /\ frames' = [frames EXCEPT
                              ![f].state = "returned",
                              ![f].result = flatResults(frames, frames[f].children, 1)
                                            \o collectResourceFiles(frames[f].pkg)]
    /\ UNCHANGED <<cache, pkgs, batchIndex, processedPackages, loadedResourceFiles, lpc>>
    /\ UNCHANGED <<sortVars, dedupeVars, compileVars, validatorVars, facadeVars, documentVars, hierarchyVars, intermediateVars, kindVars, dependencyVars, promiseVars>>

\* loadResources goes on after `await loadResourcesForPackage`: the batch,
\* sorted by kind, is pushed file by file; after the last package it returns.
PushBatch ==
    /\ lpc = "loading" /\ frames # <<>>
    /\ frames[1].state = "returned"
    /\ loadedResourceFiles' =
           pushUnseen(loadedResourceFiles, ArraySortByKind(frames[1].result, 1, <<>>), 1)
    /\ frames' = <<>>
    /\ lpc' = IF batchIndex = Len(pkgs) THEN "resolved" ELSE "loading"
    /\ UNCHANGED <<cache, pkgs, batchIndex, processedPackages>>
    /\ UNCHANGED <<sortVars, dedupeVars, compileVars, validatorVars, facadeVars, documentVars, hierarchyVars, intermediateVars, kindVars, dependencyVars, promiseVars>>

\* loadResourcesForPackage rejected, and loadResources with it; the calls of
\* recurse still open go on.
RejectLoadResources ==
    /\ lpc = "loading" /\ frames # <<>>
    /\ frames[1].state = "rejected"
    /\ lpc' = "rejected"
    /\ UNCHANGED <<cache, pkgs, batchIndex, processedPackages, frames, loadedResourceFiles>>
    /\ UNCHANGED <<sortVars, dedupeVars, compileVars, validatorVars, facadeVars, documentVars, hierarchyVars, intermediateVars, kindVars, dependencyVars, promiseVars>>

NextLoader ==
    \/ LoadResourcesForPackage
    \/ \E f \in 1..(NumCached + 1) : Recurse(f)
    \/ \E f \in 1..(NumCached + 1) : ReturnFromRecurse(f)
    \/ PushBatch
    \/ RejectLoadResources

SpecLoader == InitLoader /\ [][NextLoader]_vars

\* Nothing is left to run: loadResources has returned, or it has rejected
\* and no call of recurse can go on.
LoaderAtRest ==
    \/ lpc = "resolved"
    \/ /\ lpc = "rejected"
       /\ \A f \in 1..Len(frames) :
             \/ frames[f].state \in {"returned", "rejected"}
             \/ /\ frames[f].state = "awaiting"
                /\ \A i \in 1..Len(frames[f].children) :
                      frames[f].children[i] # 0
                          => frames[frames[f].children[i]].state # "rejected"
                /\ \E i \in 1..Len(frames[f].children) :
                      /\ frames[f].children[i] # 0
                      /\ frames[frames[f].children[i]].state # "returned"

RECURSIVE OpenWork(_)
\* The steps the calls of recurse from f on have yet to take.
OpenWork(f) ==
    IF f > Len(frames) THEN 0
    ELSE (CASE frames[f].state = "called" -> 2
            [] frames[f].state = "awaiting" -> 1
            [] OTHER -> 0) + OpenWork(f + 1)

\* A bound on the steps the package being loaded can still take, and on
\* those of the whole of loadResources.
WorkOfAPackage == 3 * NumCached + 4
RemainingWork ==
    (Len(pkgs) - batchIndex) * WorkOfAPackage
    + 3 * (NumCached - Cardinality(Range(processedPackages)))
    + OpenWork(1)
    + (IF lpc = "loading" /\ frames # <<>> THEN 1 ELSE 0)

\* C30: loading packages and their dependencies terminates, whatever the
\* dependencies of the cached packages are, cycles included: every step
\* lowers the work that remains, which is never negative, recurse is called
\* at most once for each key and once more for the package asked for; and the
\* list that is returned holds no file path twice.
C30_LoadingTerminatesWithoutDuplicates ==
    [][/\ RemainingWork' < RemainingWork
       /\ RemainingWork' >= 0
       /\ Len(frames') <= NumCached + 1
       /\ lpc' = "resolved" =>
             \A i, j \in 1..Len(loadedResourceFiles') :
                 loadedResourceFiles'[i].filePath = loadedResourceFiles'[j].filePath => i = j]_vars

\* A step is possible until the loader is at rest: the load stops nowhere
\* else.
C30_AStepUntilAtRest ==
    ~LoaderAtRest =>
        \/ lpc = "loading" /\ frames = <<>> /\ batchIndex < Len(pkgs)
        \/ \E f \in 1..Len(frames) : frames[f].state = "called"
        \/ \E f \in 1..Len(frames) :
              /\ frames[f].state = "awaiting"
              /\ LET children == {frames[f].children[i] : i \in 1..Len(frames[f].children)} \ {0}
                 IN \/ \E child \in children : frames[child].state = "rejected"
                    \/ \A child \in children : frames[child].state = "returned"
        \/ lpc = "loading" /\ frames # <<>> /\ frames[1].state \in {"returned", "rejected"}

\* Is there a path of dependencies from package a to package b.
RECURSIVE DependsOn(_, _, _)
DependsOn(a, b, n) ==
    /\ n > 0
    /\ \E i \in 1..Len(cache[a].dependencies) :
          \/ cache[a].dependencies[i] = b
          \/ DependsOn(cache[a].dependencies[i], b, n - 1)

\* loadResources has returned the files of a package that depends on itself
\* by way of another package, each of them once.
C30_Witness ==
    /\ lpc = "resolved"
    /\ \E a, b \in CachedKeys :
          /\ a # b /\ pkgs[1] = a
          /\ b \in Range(cache[a].dependencies) /\ DependsOn(b, a, NumCached)
          /\ Cardinality({i \in 1..Len(loadedResourceFiles) :
                             loadedResourceFiles[i].url = a}) = 2
          /\ Cardinality({i \in 1..Len(loadedResourceFiles) :
                             loadedResourceFiles[i].url = b}) = 2

\* recurse returned the files of the package asked for twice, since its key
\* is not among the processed ones when a dependency names it.
C30_RecurseReturnsAFileTwice ==
    /\ frames # <<>>
    /\ frames[1].state = "returned"
    /\ \E i, j \in 1..Len(frames[1].result) :
          i # j /\ frames[1].result[i].filePath = frames[1].result[j].filePath

====
